---- MODULE Spec2Model ----
(***************************************************************************)
(* cgDist: the alignment cache of the distance engine, its persistence     *)
(* (save_cache / load_cache / enrichment), the distance assembler          *)
(* (get_distance, calculate_sample_distance, calculate_distance_matrix)    *)
(* and the part of run_main that drives them.                              *)
(*                                                                         *)
(* Strings are sequences of one-character strings, so that formatting a    *)
(* cache key ("locus:crc1:crc2") and splitting it again are computed, not  *)
(* assumed.  Option<T> is <<>> for None and <<x>> for Some(x).             *)
(***************************************************************************)
EXTENDS Integers, Sequences, FiniteSets, TLC

VARIABLES
    cache,            \* DistanceEngine.cache : key <<locus, crc1, crc2>> -> CacheEntry
    has_new_entries,  \* DistanceEngine.has_new_entries
    config,           \* DistanceEngine.config
    hasher_type,      \* DistanceEngine.hasher_type
    sequence_db,      \* DistanceEngine.sequence_db : <<locus, crc>> -> sequence
    schema,           \* the schema directory : locus -> sequences of its FASTA file
    disk,             \* the file at cache_path
    samples,          \* AllelicMatrix.samples : sample index -> (locus -> AlleleHash)
    loci_names,       \* AllelicMatrix.loci_names
    op,               \* the operation that ran last
    arg,              \* its input
    ret,              \* its result
    pc,               \* position of run_main
    args              \* command-line arguments of run_main

vars == <<cache, has_new_entries, config, hasher_type, sequence_db, schema, disk,
          samples, loci_names, op, arg, ret, pc, args>>

-----------------------------------------------------------------------------
(* Bounds *)

\* u32 is modelled CrcBits wide; only the top value (u32::MAX) is special.
CrcBits == 3
\* allele numbers 1..MaxCrc occur in profiles and in arguments
MaxCrc == 2
\* min_loci ranges over 0..MaxMinLoci
MaxMinLoci == 2
\* a cache file's note is enriched by hand, and the program is started again,
\* while the note holds fewer pieces than this
MaxNote == 2

U32_MAX == 2^CrcBits - 1

None == <<>>
Some(x) == <<x>>

-----------------------------------------------------------------------------
(* Text: decimal formatting, parsing, splitting *)

Digits == <<"0", "1", "2", "3", "4", "5", "6", "7", "8", "9">>

RECURSIVE to_string(_)
\* u32::to_string
to_string(n) ==
    IF n < 10 THEN <<Digits[n + 1]>>
    ELSE to_string(n \div 10) \o <<Digits[(n % 10) + 1]>>

IsDigit(ch) == \E i \in 1..10 : Digits[i] = ch

DigitValue(ch) == (CHOOSE i \in 1..10 : Digits[i] = ch) - 1

RECURSIVE DecimalValue(_)
DecimalValue(s) ==
    IF Len(s) = 0 THEN 0
    ELSE 10 * DecimalValue(SubSeq(s, 1, Len(s) - 1)) + DigitValue(s[Len(s)])

\* str::parse::<u32>() : Ok(n) as <<n>>, Err as <<>>
\* (a sign-less decimal numeral that fits the integer's width)
parse_u32(s) ==
    IF Len(s) > 0 /\ Len(s) <= 3 /\ (\A i \in 1..Len(s) : IsDigit(s[i]))
       /\ DecimalValue(s) <= U32_MAX
    THEN Some(DecimalValue(s))
    ELSE None

unwrap_or(o, d) == IF o = None THEN d ELSE o[1]

RECURSIVE split(_, _)
\* str::split(sep).collect()
split(s, sep) ==
    IF \E i \in 1..Len(s) : s[i] = sep
    THEN LET i == CHOOSE j \in 1..Len(s) :
                     s[j] = sep /\ \A k \in 1..(j - 1) : s[k] # sep
         IN  <<SubSeq(s, 1, i - 1)>> \o split(SubSeq(s, i + 1, Len(s)), sep)
    ELSE <<s>>

-----------------------------------------------------------------------------
(* Fingerprints *)

Crc32(v) == [tag |-> "Crc32", val |-> v]
String(s) == [tag |-> "String", val |-> s]
Missing == [tag |-> "Missing", val |-> 0]

is_missing(h) == h.tag = "Missing"

as_crc32(h) == IF h.tag = "Crc32" THEN Some(h.val) ELSE None

from_crc32(v) == IF v = U32_MAX THEN Missing ELSE Crc32(v)

-----------------------------------------------------------------------------
(* Alignment configuration and distance mode *)

DistanceModes == {"SnpsOnly", "SnpsAndIndelEvents", "SnpsAndIndelBases", "Hamming"}

AlignmentConfig(m, x, go, ge, d) ==
    [match_score |-> m, mismatch_penalty |-> x, gap_open |-> go,
     gap_extend |-> ge, description |-> d]

from_mode(mode) ==
    CASE mode = "dna" -> AlignmentConfig(2, -1, 5, 2, Some("Standard DNA alignment"))
      [] mode = "dna-strict" ->
            AlignmentConfig(3, -2, 8, 3, Some("Strict DNA alignment (higher penalties)"))
      [] mode = "dna-permissive" ->
            AlignmentConfig(1, 0, 3, 1, Some("Permissive DNA alignment (lower penalties)"))

custom(m, x, go, ge) ==
    AlignmentConfig(m, x, go, ge, Some("Custom alignment parameters"))

\* #[derive(PartialEq)] on AlignmentConfig: every field is compared
config_eq(c1, c2) ==
    /\ c1.match_score = c2.match_score
    /\ c1.mismatch_penalty = c2.mismatch_penalty
    /\ c1.gap_open = c2.gap_open
    /\ c1.gap_extend = c2.gap_extend
    /\ c1.description = c2.description

-----------------------------------------------------------------------------
(* Cache *)

Key(locus, crc1, crc2) == <<locus, crc1, crc2>>

CacheEntry(snps, indel_events, indel_bases) ==
    [snps |-> snps, indel_events |-> indel_events, indel_bases |-> indel_bases]

EmptyCache == [k \in {} |-> CacheEntry(0, 0, 0)]

\* get_distance, lines 152-181: the lookup of temp_key and the fallback rule
lookup_distance(c, temp_key, crc1, crc2, mode, no_hamming_fallback) ==
    IF temp_key \in DOMAIN c
    THEN LET entry == c[temp_key]
             distance ==
               CASE mode = "SnpsOnly" -> entry.snps
                 [] mode = "SnpsAndIndelEvents" -> entry.snps + entry.indel_events
                 [] mode = "SnpsAndIndelBases" -> entry.snps + entry.indel_bases
                 [] mode = "Hamming" -> 1
         IN  IF distance = 0 /\ crc1 # crc2 /\ ~no_hamming_fallback
                /\ mode = "SnpsOnly"
             THEN 1 ELSE distance
    ELSE IF no_hamming_fallback THEN 0
         ELSE IF mode = "SnpsOnly" THEN 1 ELSE 0

\* get_distance looking the pair up in the order given
get_distance_unordered(c, ht, locus, crc1, crc2, mode, no_hamming_fallback) ==
    IF crc1 = U32_MAX \/ crc2 = U32_MAX THEN 0
    ELSE IF crc1 = crc2 THEN 0
    ELSE IF ht = "hamming" THEN 1
    ELSE lookup_distance(c, Key(locus, crc1, crc2), crc1, crc2, mode,
                         no_hamming_fallback)

\* get_distance without the fast path for identical alleles
get_distance_no_identity(c, ht, locus, crc1, crc2, mode, no_hamming_fallback) ==
    IF crc1 = U32_MAX \/ crc2 = U32_MAX THEN 0
    ELSE IF ht = "hamming" THEN 1
    ELSE LET min_crc == IF crc1 <= crc2 THEN crc1 ELSE crc2
             max_crc == IF crc1 <= crc2 THEN crc2 ELSE crc1
         IN  lookup_distance(c, Key(locus, min_crc, max_crc), crc1, crc2, mode,
                             no_hamming_fallback)

\* DistanceEngine::get_distance on an engine with cache c and hasher type ht
get_distance(c, ht, locus, crc1, crc2, mode, no_hamming_fallback) ==
    IF crc1 = U32_MAX \/ crc2 = U32_MAX THEN 0
    ELSE IF crc1 = crc2 THEN 0
    ELSE IF ht = "hamming" THEN 1
    ELSE LET min_crc == IF crc1 <= crc2 THEN crc1 ELSE crc2
             max_crc == IF crc1 <= crc2 THEN crc2 ELSE crc1
         IN  lookup_distance(c, Key(locus, min_crc, max_crc), crc1, crc2, mode,
                             no_hamming_fallback)

\* HashMap::insert
Insert(c, k, v) == [x \in (DOMAIN c) \cup {k} |-> IF x = k THEN v ELSE c[x]]

EngineState(c, flag) == [cache |-> c, has_new_entries |-> flag]

\* DistanceEngine::cache_distance : the cache and the flag afterwards
cache_distance(c, locus, crc1, crc2, snps, indel_events, indel_bases) ==
    LET min_crc == IF crc1 <= crc2 THEN crc1 ELSE crc2
        max_crc == IF crc1 <= crc2 THEN crc2 ELSE crc1
    IN  EngineState(Insert(c, Key(locus, min_crc, max_crc),
                           CacheEntry(snps, indel_events, indel_bases)),
                    TRUE)

-----------------------------------------------------------------------------
(* Distance assembler *)

\* the fingerprint the assembler reads for a sample at a locus
LocusCrc(sample, locus) ==
    IF locus \in DOMAIN sample THEN unwrap_or(as_crc32(sample[locus]), U32_MAX)
    ELSE U32_MAX

RECURSIVE SumDistance(_, _, _, _, _, _, _, _)
\* the loop of calculate_sample_distance over loci[1..n] : <<total_distance, shared_loci>>
SumDistance(c, ht, sample1, sample2, loci, n, mode, no_hamming_fallback) ==
    IF n = 0 THEN <<0, 0>>
    ELSE LET prev == SumDistance(c, ht, sample1, sample2, loci, n - 1, mode,
                                 no_hamming_fallback)
             crc1 == LocusCrc(sample1, loci[n])
             crc2 == LocusCrc(sample2, loci[n])
         IN  <<prev[1] + get_distance(c, ht, loci[n], crc1, crc2, mode,
                                      no_hamming_fallback),
               prev[2] + (IF crc1 # U32_MAX /\ crc2 # U32_MAX THEN 1 ELSE 0)>>

\* calculate_sample_distance : Option<usize>
calculate_sample_distance(sample1, sample2, loci, c, ht, mode, min_loci, no_hamming_fallback) ==
    LET r == SumDistance(c, ht, sample1, sample2, loci, Len(loci), mode,
                         no_hamming_fallback)
    IN  IF r[2] >= min_loci THEN Some(r[1]) ELSE None

\* calculate_distance_matrix : the diagonal is Some(0), the upper triangle is
\* computed and mirrored
calculate_distance_matrix(smp, loci, c, ht, mode, min_loci, no_hamming_fallback) ==
    LET n == Len(smp)
        upper == [p \in {q \in (1..n) \X (1..n) : q[1] < q[2]} |->
                    calculate_sample_distance(smp[p[1]], smp[p[2]], loci, c, ht,
                                              mode, min_loci, no_hamming_fallback)]
    IN  [i \in 1..n |-> [j \in 1..n |->
            IF i = j THEN Some(0)
            ELSE IF i < j THEN upper[<<i, j>>] ELSE upper[<<j, i>>]]]

-----------------------------------------------------------------------------
(* Cache files *)

\* timestamps: what chrono::Utc::now() yields during this run, and an earlier time
Now == "now"
Earlier == "earlier"

CacheValue(snps, indel_events, indel_bases, computed_at, seq1_length, seq2_length) ==
    [snps |-> snps, indel_events |-> indel_events, indel_bases |-> indel_bases,
     computed_at |-> computed_at, seq1_length |-> seq1_length,
     seq2_length |-> seq2_length]

CacheMetadata(cfg, ht, mode_text, note, total, loci, version) ==
    [alignment_config |-> cfg, hasher_type |-> ht, distance_mode |-> mode_text,
     user_note |-> note, total_entries |-> total, unique_loci |-> loci,
     format_version |-> version, last_modified |-> Now]

\* a file that decodes as ModernCache (JSON)
ModernCache(data, metadata) ==
    [format |-> "modern", data |-> data, metadata |-> metadata]

\* a file that decodes as the legacy (bincode) structure
LegacyCache(data, cfg) ==
    [format |-> "legacy", data |-> data, alignment_config |-> cfg]

\* a file that does not decompress or decodes as neither format
Garbage == [format |-> "garbage"]

\* no file at the path
NoFile == [format |-> "absent"]

\* the string key save_cache writes for a cache key
string_key(key) ==
    key[1] \o <<":">> \o to_string(key[2]) \o <<":">> \o to_string(key[3])

\* load_cache, lines 393-400: the cache key of a string key, None when the
\* string does not split into three parts
parse_string_key(sk) ==
    LET parts == split(sk, ":")
    IN  IF Len(parts) = 3
        THEN Some(Key(parts[1], unwrap_or(parse_u32(parts[2]), 0),
                      unwrap_or(parse_u32(parts[3]), 0)))
        ELSE None

\* The maps a loop "for (k, v) in src { dst.insert(keyOf(k), valOf(v)) }" can
\* build from an empty dst: where several source keys give the same target key,
\* the hash map's iteration order decides which value stays.
Collected(src, keyOf(_), valOf(_)) ==
    LET kept == {k \in DOMAIN src : keyOf(k) # None}
        keys == {keyOf(k)[1] : k \in kept}
        vals == {valOf(src[k]) : k \in kept}
    IN  {f \in [keys -> vals] :
            \A t \in keys : \E k \in kept : keyOf(k) = Some(t) /\ f[t] = valOf(src[k])}

distance_mode_text(mode) ==
    CASE mode = "SnpsOnly" -> "snps"
      [] mode = "SnpsAndIndelEvents" -> "snps-indel-events"
      [] mode = "SnpsAndIndelBases" -> "snps-indel-bases"
      [] mode = "Hamming" -> "hamming"

\* save_cache, lines 221-240: the data of the written document
saved_data(c) ==
    Collected(c, LAMBDA k : Some(string_key(k)),
              LAMBDA e : CacheValue(e.snps, e.indel_events, e.indel_bases, Now,
                                    None, None))

SaveResult(r, file, flag) == [ret |-> r, file |-> file, has_new_entries |-> flag]

\* save_cache that leaves the flag as it is
save_cache_keeps_flag(c, flag, cfg, ht, note, mode) ==
    {SaveResult("Ok",
                Some(ModernCache(data,
                                 CacheMetadata(cfg, ht, distance_mode_text(mode), note,
                                               Cardinality(DOMAIN c),
                                               Cardinality({k[1] : k \in DOMAIN c}), 2))),
                flag) :
        data \in saved_data(c)}
    \cup {SaveResult("Err", None, flag), SaveResult("Err", Some(Garbage), flag)}

\* DistanceEngine::save_cache : the outcomes of a save.  file is what the call
\* leaves at cache_path, None for the file that was there.  std::fs::write
\* creates (truncates) the file and then writes: when it fails, the old file
\* or a truncated one is left.
save_cache(c, flag, cfg, ht, note, mode) ==
    {SaveResult("Ok",
                Some(ModernCache(data,
                                 CacheMetadata(cfg, ht, distance_mode_text(mode), note,
                                               Cardinality(DOMAIN c),
                                               Cardinality({k[1] : k \in DOMAIN c}), 2))),
                FALSE) :
        data \in saved_data(c)}
    \cup {SaveResult("Err", None, flag), SaveResult("Err", Some(Garbage), flag)}

LoadResult(r, caches, flag) == [ret |-> r, caches |-> caches, has_new_entries |-> flag]

entry_of_value(v) == CacheEntry(v.snps, v.indel_events, v.indel_bases)

\* load_cache, lines 391-408: the caches the entries of a modern file give
modern_entries(file) == Collected(file.data, parse_string_key, entry_of_value)

\* load_cache, lines 419-451: the legacy branch
load_legacy(c, flag, cfg, file) ==
    IF ~config_eq(file.alignment_config, cfg)
    THEN LoadResult("Err", {c}, flag)
    ELSE LoadResult("Ok",
                    Collected(file.data,
                              LAMBDA k : Some(Key(k[1], k[2], k[3])),
                              LAMBDA v : CacheEntry(v[1], v[2], v[3])),
                    FALSE)

\* load_cache that does not compare the hasher type
load_cache_any_hasher(c, flag, cfg, ht, file) ==
    IF file.format = "absent" THEN LoadResult("Err", {c}, flag)
    ELSE IF file.format = "garbage" THEN LoadResult("Err", {c}, flag)
    ELSE IF file.format = "modern"
    THEN IF ~config_eq(file.metadata.alignment_config, cfg)
         THEN LoadResult("Err", {c}, flag)
         ELSE LoadResult("Ok", modern_entries(file), FALSE)
    ELSE load_legacy(c, flag, cfg, file)

\* load_cache that clears the engine's cache before it compares the settings
load_cache_clearing_first(c, flag, cfg, ht, file) ==
    IF file.format = "absent" THEN LoadResult("Err", {c}, flag)
    ELSE IF file.format = "garbage" THEN LoadResult("Err", {c}, flag)
    ELSE IF file.format = "modern"
    THEN IF ~config_eq(file.metadata.alignment_config, cfg)
         THEN LoadResult("Err", {EmptyCache}, flag)
         ELSE IF file.metadata.hasher_type # ht
         THEN LoadResult("Err", {EmptyCache}, flag)
         ELSE LoadResult("Ok", modern_entries(file), FALSE)
    ELSE load_legacy(c, flag, cfg, file)

\* DistanceEngine::load_cache on an engine with cache c, flag, config cfg and
\* hasher type ht: the result, and the caches and the flag the engine can
\* hold afterwards
load_cache(c, flag, cfg, ht, file) ==
    IF file.format = "absent" THEN LoadResult("Err", {c}, flag)
    ELSE IF file.format = "garbage" THEN LoadResult("Err", {c}, flag)
    ELSE IF file.format = "modern"
    THEN IF ~config_eq(file.metadata.alignment_config, cfg)
         THEN LoadResult("Err", {c}, flag)
         ELSE IF file.metadata.hasher_type # ht
         THEN LoadResult("Err", {c}, flag)
         ELSE LoadResult("Ok", modern_entries(file), FALSE)
    ELSE load_legacy(c, flag, cfg, file)

-----------------------------------------------------------------------------
(* Sequences, schema and alignment *)

SeqA == <<"A">>
SeqC == <<"C">>
SeqAC == <<"A", "C">>

\* compute_crc32 / Crc32Hasher::hash_sequence on the sequences of the model
compute_crc32(sequence) ==
    CASE sequence = SeqA -> 1
      [] sequence = SeqC -> 2
      [] sequence = SeqAC -> 2
      [] OTHER -> 0

\* AlleleHasher::hash_sequence of the hasher registered under a name
hash_sequence(ht, sequence) ==
    IF ht \in {"crc32", "hamming"} THEN from_crc32(compute_crc32(sequence))
    ELSE String(sequence)

\* extract_unique_crc_pairs
extract_unique_crc_pairs(smp, loci) ==
    UNION {LET locus == loci[n]
               locus_crcs == {as_crc32(smp[i][locus])[1] :
                                 i \in {j \in 1..Len(smp) :
                                          /\ locus \in DOMAIN smp[j]
                                          /\ as_crc32(smp[j][locus]) # None
                                          /\ as_crc32(smp[j][locus])[1] # U32_MAX}}
           IN  {<<locus, p[1], p[2]>> : p \in {q \in locus_crcs \X locus_crcs :
                                                 q[1] < q[2]}} :
           n \in 1..Len(loci)}

\* SequenceDatabase::from_schema_selective : the databases the load can give
\* (a schema maps a locus to the set of sequences of its FASTA file)
from_schema_selective(schm, unique_pairs) ==
    LET required == {<<p[1], p[2]>> : p \in unique_pairs}
                        \cup {<<p[1], p[3]>> : p \in unique_pairs}
        records == {<<l, sq>> : l \in DOMAIN schm, sq \in UNION {schm[x] : x \in DOMAIN schm}}
        kept == {r \in records : r[2] \in schm[r[1]]
                                   /\ <<r[1], compute_crc32(r[2])>> \in required}
        src == [r \in kept |-> r[2]]
    IN  Collected(src, LAMBDA r : Some(<<r[1], compute_crc32(r[2])>>), LAMBDA v : v)

\* SequenceDatabase::get_sequence
get_sequence(db, locus, crc) ==
    IF <<locus, crc>> \in DOMAIN db THEN Some(db[<<locus, crc>>]) ELSE None

RECURSIVE stats_loop(_, _, _)
\* compute_alignment_stats, the loop over columns 1..n : <<snps, events, bases, in_gap>>
stats_loop(query, reference, n) ==
    IF n = 0 THEN <<0, 0, 0, FALSE>>
    ELSE LET prev == stats_loop(query, reference, n - 1)
             q == query[n]
             r == reference[n]
         IN  IF q = "-" \/ r = "-"
             THEN <<prev[1], IF prev[4] THEN prev[2] ELSE prev[2] + 1, prev[3] + 1, TRUE>>
             ELSE <<IF q # r THEN prev[1] + 1 ELSE prev[1], prev[2], prev[3], FALSE>>

Min(a, b) == IF a <= b THEN a ELSE b

\* compute_alignment_stats with the two indel counts in each other's place
compute_alignment_stats_swapped(query, reference) ==
    LET r == stats_loop(query, reference, Min(Len(query), Len(reference)))
    IN  <<r[1], r[3], r[2]>>

\* compute_alignment_stats
compute_alignment_stats(query, reference) ==
    LET r == stats_loop(query, reference, Min(Len(query), Len(reference)))
    IN  <<r[1], r[2], r[3]>>

\* analyze_sequences
analyze_sequences(seq1, seq2) ==
    LET min_len == Min(Len(seq1), Len(seq2))
        snps == Cardinality({i \in 1..min_len : seq1[i] # seq2[i]})
        len_diff == IF Len(seq1) >= Len(seq2) THEN Len(seq1) - Len(seq2)
                    ELSE Len(seq2) - Len(seq1)
    IN  IF Len(seq1) = Len(seq2) THEN <<snps, 0, 0>>
        ELSE <<snps, IF len_diff > 0 THEN 1 ELSE 0, len_diff>>

RECURSIVE Tracebacks(_, _)
\* what the aligner's traceback can be: a global alignment of the two
\* sequences, every column holding a base of at least one of them
Tracebacks(seq1, seq2) ==
    IF Len(seq1) = 0 /\ Len(seq2) = 0 THEN {<<<<>>, <<>>>>}
    ELSE (IF Len(seq1) > 0 /\ Len(seq2) > 0
          THEN {<<<<seq1[1]>> \o t[1], <<seq2[1]>> \o t[2]>> :
                    t \in Tracebacks(Tail(seq1), Tail(seq2))}
          ELSE {})
         \cup (IF Len(seq1) > 0
               THEN {<<<<seq1[1]>> \o t[1], <<"-">> \o t[2]>> :
                         t \in Tracebacks(Tail(seq1), seq2)}
               ELSE {})
         \cup (IF Len(seq2) > 0
               THEN {<<<<"-">> \o t[1], <<seq2[1]>> \o t[2]>> :
                         t \in Tracebacks(seq1, Tail(seq2))}
               ELSE {})

\* DistanceEngine::compute_single_alignment : the results it can return
compute_single_alignment(db, locus, crc1, crc2, mode) ==
    IF crc1 = crc2 THEN {Some(<<0, 0, 0>>)}
    ELSE IF mode = "Hamming" THEN {Some(<<1, 0, 0>>)}
    ELSE IF get_sequence(db, locus, crc1) # None /\ get_sequence(db, locus, crc2) # None
    THEN LET seq1 == get_sequence(db, locus, crc1)[1]
             seq2 == get_sequence(db, locus, crc2)[1]
         IN  {Some(compute_alignment_stats(t[1], t[2])) : t \in Tracebacks(seq1, seq2)}
                 \cup {Some(analyze_sequences(seq1, seq2))}
    ELSE {None}

\* the precomputation that computes every requested pair, cached or not
precompute_alignments_recomputing(c, flag, db, unique_pairs, mode) ==
    LET canon(p) == Key(p[1], Min(p[2], p[3]), IF p[2] <= p[3] THEN p[3] ELSE p[2])
        missing_pairs == unique_pairs
        outcomes == UNION {compute_single_alignment(db, p[1], p[2], p[3], mode) :
                              p \in missing_pairs}
        runs == {a \in [missing_pairs -> outcomes] :
                    \A p \in missing_pairs :
                        a[p] \in compute_single_alignment(db, p[1], p[2], p[3], mode)}
    IN  IF missing_pairs = {} THEN {<<c, flag>>}
        ELSE UNION {
               {<<[k \in DOMAIN c \cup DOMAIN new |->
                      IF k \in DOMAIN new THEN new[k] ELSE c[k]],
                  flag \/ DOMAIN new # {}>> :
                  new \in Collected(a,
                                    LAMBDA p : IF a[p] = None THEN None ELSE Some(canon(p)),
                                    LAMBDA v : IF v = None THEN CacheEntry(0, 0, 0)
                                               ELSE CacheEntry(v[1][1], v[1][2], v[1][3]))} :
               a \in runs}

\* DistanceEngine::precompute_alignments : the <<cache, has_new_entries>> the
\* engine can hold afterwards
precompute_alignments(c, flag, db, unique_pairs, mode) ==
    LET canon(p) == Key(p[1], Min(p[2], p[3]), IF p[2] <= p[3] THEN p[3] ELSE p[2])
        missing_pairs == {p \in unique_pairs : canon(p) \notin DOMAIN c}
        outcomes == UNION {compute_single_alignment(db, p[1], p[2], p[3], mode) :
                              p \in missing_pairs}
        runs == {a \in [missing_pairs -> outcomes] :
                    \A p \in missing_pairs :
                        a[p] \in compute_single_alignment(db, p[1], p[2], p[3], mode)}
    IN  IF missing_pairs = {} THEN {<<c, flag>>}
        ELSE UNION {
               {<<[k \in DOMAIN c \cup DOMAIN new |->
                      IF k \in DOMAIN new THEN new[k] ELSE c[k]],
                  flag \/ DOMAIN new # {}>> :
                  new \in Collected(a,
                                    LAMBDA p : IF a[p] = None THEN None ELSE Some(canon(p)),
                                    LAMBDA v : IF v = None THEN CacheEntry(0, 0, 0)
                                               ELSE CacheEntry(v[1][1], v[1][2], v[1][3]))} :
               a \in runs}

-----------------------------------------------------------------------------
(* Enrichment *)

\* load_schema_with_crc_mapping : the crc -> length maps it can build
crc_to_length_maps(schm, ht) ==
    LET records == {r \in (DOMAIN schm) \X UNION {schm[x] : x \in DOMAIN schm} :
                       r[2] \in schm[r[1]]}
        src == [r \in records |-> r[2]]
    IN  Collected(src, LAMBDA r : as_crc32(hash_sequence(ht, r[2])), LAMBDA v : Len(v))

\* the entry with a length the mapping does not hold set to 0
enriched_value_defaulting(sk, value, crc_to_length) ==
    LET parts == split(sk, ":")
    IN  IF Len(parts) >= 3 /\ parse_u32(parts[2]) # None /\ parse_u32(parts[3]) # None
        THEN LET crc1 == parse_u32(parts[2])[1]
                 crc2 == parse_u32(parts[3])[1]
             IN  [value EXCEPT
                    !.seq1_length = IF crc1 \in DOMAIN crc_to_length
                                    THEN Some(crc_to_length[crc1]) ELSE Some(0),
                    !.seq2_length = IF crc2 \in DOMAIN crc_to_length
                                    THEN Some(crc_to_length[crc2]) ELSE Some(0)]
        ELSE value

\* enrich_cache_with_lengths_from_input, lines 711-743: one entry
enriched_value(sk, value, crc_to_length) ==
    LET parts == split(sk, ":")
    IN  IF Len(parts) >= 3 /\ parse_u32(parts[2]) # None /\ parse_u32(parts[3]) # None
        THEN LET crc1 == parse_u32(parts[2])[1]
                 crc2 == parse_u32(parts[3])[1]
             IN  [value EXCEPT
                    !.seq1_length = IF crc1 \in DOMAIN crc_to_length
                                    THEN Some(crc_to_length[crc1]) ELSE @,
                    !.seq2_length = IF crc2 \in DOMAIN crc_to_length
                                    THEN Some(crc_to_length[crc2]) ELSE @]
        ELSE value


\* enrich_cache_with_lengths_from_input : the result and the documents it can
\* write to the output path ({} when it writes nothing)
enrich_cache_with_lengths_from_input(schm, ht, input) ==
    IF input.format # "modern" THEN [ret |-> "Err", written |-> {}]
    ELSE [ret |-> "Ok",
          written |->
            {ModernCache([sk \in DOMAIN input.data |->
                             enriched_value(sk, input.data[sk], m)],
                         [input.metadata EXCEPT
                            !.last_modified = Now,
                            !.user_note =
                               IF @ = None THEN Some(<<"Enriched with sequence lengths">>)
                               ELSE Some(@[1] \o <<" [Enriched with sequence lengths]">>)]) :
                m \in crc_to_length_maps(schm, ht)}]

-----------------------------------------------------------------------------
(* Inputs *)

LocusA == <<"a">>
LocusB == <<"b">>
LocusC == <<"c", ":">>


Crcs == 1..MaxCrc

Hashers == {"crc32", "sha256", "hamming"}

\* the cells parse_allele of a hasher can give
Cells(ht) ==
    IF ht \in {"crc32", "hamming"} THEN {from_crc32(c) : c \in Crcs \cup {U32_MAX}}
    ELSE {String(<<"x">>), String(<<"y">>), Missing}

\* the alignment statistics a caller passes to cache_distance
EntryArgs == {<<0, 1, 2>>}

\* the fingerprint pairs a caller passes to cache_distance
CrcArgs == {<<1, 2>>, <<2, 1>>}

\* the data of cache files that exist before the run: canonical with lengths,
\* canonical without, pair in descending order, fingerprint that is no number,
\* key of two parts, second fingerprint that no sequence of the schema has
\* (a file not written by this program: more indel events than indel bases)
ExternalData ==
    LET v(l1, l2) == CacheValue(1, 0, 0, Earlier, l1, l2)
    IN  {[sk \in {LocusA \o <<":", "1", ":", "2">>} |-> v(Some(1), Some(1))],
         [sk \in {LocusA \o <<":", "1", ":", "2">>} |-> v(None, None)],
         [sk \in {LocusA \o <<":", "2", ":", "1">>} |-> v(None, None)],
         [sk \in {LocusA \o <<":", "2", ":", "x">>, LocusA \o <<":", "1">>} |->
             v(None, None)],
         [sk \in {LocusA \o <<":", "1", ":", "3">>} |->
             CacheValue(0, 2, 1, Earlier, None, None)]}

BaseData == [sk \in {LocusA \o <<":", "1", ":", "2">>} |->
               CacheValue(1, 0, 0, Earlier, Some(1), Some(1))]

Metadata(cfg, ht, mode_text, d) ==
    CacheMetadata(cfg, ht, mode_text, None, Cardinality(DOMAIN d),
                  Cardinality({split(sk, ":")[1] : sk \in DOMAIN d}), 2)

LegacyData ==
    {[k \in {<<LocusA, 1, 2, 0>>} |-> <<1, 0, 0>>],
     [k \in {<<LocusA, 2, 1, 0>>} |-> <<1, 0, 0>>]}

BaseConfig == custom(2, -1, 5, 2)

\* the cache files a user can hold before the run: the data above under the
\* base metadata, the base data under metadata that differ in one field,
\* legacy files, and a file that does not decode
ExternalFiles ==
    {ModernCache(d, Metadata(BaseConfig, "crc32", "snps", d)) : d \in ExternalData}
    \cup {ModernCache(BaseData, Metadata(cfg, "crc32", "snps", BaseData)) :
             cfg \in {from_mode("dna"), from_mode("dna-strict")}}
    \cup {ModernCache(BaseData, Metadata(BaseConfig, "sha256", "snps", BaseData)),
          ModernCache(BaseData, Metadata(BaseConfig, "crc32", "snps-indel-bases", BaseData))}
    \cup {LegacyCache(d, BaseConfig) : d \in LegacyData}
    \cup {LegacyCache(BaseData, from_mode("dna-strict")), Garbage}

-----------------------------------------------------------------------------
(* The engine's operations as steps *)

NoArg == [none |-> TRUE]

EngineFixed == UNCHANGED <<config, hasher_type, sequence_db, schema, samples,
                           loci_names, pc, args>>

\* a caller inserts one alignment result
CacheDistance(locus, crc1, crc2, e) ==
    /\ pc = "api"
    /\ LET r == cache_distance(cache, locus, crc1, crc2, e[1], e[2], e[3])
       IN  /\ cache' = r.cache
           /\ has_new_entries' = r.has_new_entries
    /\ op' = "cache_distance"
    /\ arg' = [key |-> <<locus, crc1, crc2>>]
    /\ ret' = "Ok"
    /\ UNCHANGED disk
    /\ EngineFixed

\* the pairs a caller can ask precompute_alignments for
PairArgs(smp, loci) ==
    {extract_unique_crc_pairs(smp, loci)}
    \cup {{<<loci[1], 2, 1>>}}

PrecomputeAlignments(unique_pairs, mode) ==
    /\ pc = "api"
    /\ \E r \in precompute_alignments(cache, has_new_entries, sequence_db,
                                      unique_pairs, mode) :
          /\ cache' = r[1]
          /\ has_new_entries' = r[2]
    /\ op' = "precompute_alignments"
    /\ arg' = [pairs |-> unique_pairs, mode |-> mode]
    /\ ret' = "Ok"
    /\ UNCHANGED disk
    /\ EngineFixed

LoadCache(file) ==
    /\ pc = "api"
    /\ LET r == load_cache(cache, has_new_entries, config, hasher_type, file)
       IN  /\ \E c \in r.caches : cache' = c
           /\ has_new_entries' = r.has_new_entries
           /\ ret' = r.ret
    /\ op' = "load_cache"
    /\ arg' = [file |-> file]
    /\ UNCHANGED disk
    /\ EngineFixed

SaveCache(mode) ==
    /\ pc = "api"
    /\ \E r \in save_cache(cache, has_new_entries, config, hasher_type,
                           args.cache_note, mode) :
          /\ disk' = IF r.file = None THEN disk ELSE r.file[1]
          /\ has_new_entries' = r.has_new_entries
          /\ ret' = r.ret
    /\ op' = "save_cache"
    /\ arg' = [mode |-> mode]
    /\ UNCHANGED cache
    /\ EngineFixed

\* enrichment of the file at cache_path, in place
EnrichCache ==
    /\ pc = "api"
    /\ disk.format = "modern" /\ disk.metadata.user_note # None
          => Len(disk.metadata.user_note[1]) < MaxNote
    /\ LET r == enrich_cache_with_lengths_from_input(schema, hasher_type, disk)
       IN  /\ disk' \in (IF r.ret = "Ok" THEN r.written ELSE {disk})
           /\ ret' = r.ret
    /\ op' = "enrich_cache"
    /\ arg' = NoArg
    /\ UNCHANGED <<cache, has_new_entries>>
    /\ EngineFixed

-----------------------------------------------------------------------------
(* Specification of the engine: its operations in any order *)

DefaultArgs ==
    [cache_note |-> None, cache_file |-> TRUE, force_recompute |-> FALSE,
     enrich_lengths |-> FALSE, cache_only |-> FALSE, mode |-> "SnpsOnly",
     min_loci |-> 0, no_hamming_fallback |-> FALSE]

\* the matrices of two samples over the loci: the first sample carries the
\* hasher's first fingerprint at the first locus
Matrices(ht, loci) ==
    LET names == {loci[n] : n \in 1..Len(loci)}
        first == IF ht \in {"crc32", "hamming"} THEN Crc32(1) ELSE String(<<"x">>)
    IN  {<<s1, s2>> : s1 \in {s \in [names -> Cells(ht)] : s[loci[1]] = first},
                      s2 \in [names -> Cells(ht)]}

FixedMatrix(loci) ==
    <<[l \in {loci[n] : n \in 1..Len(loci)} |-> Crc32(1)],
      [l \in {loci[n] : n \in 1..Len(loci)} |-> Crc32(2)]>>

Init ==
    /\ cache = EmptyCache
    /\ has_new_entries = FALSE
    /\ config = BaseConfig
    /\ hasher_type = "crc32"
    /\ loci_names = <<LocusA, LocusC>>
    /\ samples = FixedMatrix(loci_names)
    /\ schema = [l \in {LocusA, LocusC} |-> {SeqA, SeqC}]
    /\ sequence_db \in from_schema_selective(schema,
                           extract_unique_crc_pairs(samples, loci_names))
    /\ disk = NoFile
    /\ op = "new"
    /\ arg = NoArg
    /\ ret = "Ok"
    /\ pc = "api"
    /\ args = DefaultArgs

Next ==
    \/ \E c \in CrcArgs, e \in EntryArgs : CacheDistance(LocusA, c[1], c[2], e)
    \/ \E p \in PairArgs(samples, loci_names), m \in {"SnpsOnly", "Hamming"} :
          PrecomputeAlignments(p, m)
    \/ \E f \in ExternalFiles \cup {disk} : LoadCache(f)
    \/ SaveCache(args.mode)
    \/ EnrichCache

Spec == Init /\ [][Next]_vars

-----------------------------------------------------------------------------
(* Specification of the distance assembler: an engine whose cache is filled
   through cache_distance, precompute_alignments and load_cache, and queried
   for distances.  A query step answers every query at once: ret is the table
   of the results over the arguments. *)

\* the alignment results a caller inserts
DistEntryArgs == {<<0, 1, 2>>, <<2, 0, 0>>}

MinLocis == 0..MaxMinLoci

\* sample1, sample2, mode, min_loci, no_hamming_fallback
SampleQueries == (1..2) \X (1..2) \X DistanceModes \X MinLocis \X BOOLEAN

\* mode, min_loci, no_hamming_fallback
MatrixQueries == DistanceModes \X MinLocis \X BOOLEAN

\* the fingerprints get_distance is asked for: the allele numbers, 0 and u32::MAX
CrcQueries == Crcs \cup {0, U32_MAX}

\* locus, crc1, crc2, mode, no_hamming_fallback
DistanceQueries ==
    {LocusA, LocusB} \X CrcQueries \X CrcQueries \X DistanceModes \X BOOLEAN

GetDistance ==
    /\ pc = "api"
    /\ op' = "get_distance"
    /\ arg' = NoArg
    /\ ret' = [q \in DistanceQueries |->
                  get_distance(cache, hasher_type, q[1], q[2], q[3], q[4], q[5])]
    /\ UNCHANGED <<cache, has_new_entries, disk>>
    /\ EngineFixed

CalculateSampleDistance ==
    /\ pc = "api"
    /\ op' = "calculate_sample_distance"
    /\ arg' = NoArg
    /\ ret' = [q \in SampleQueries |->
                  calculate_sample_distance(samples[q[1]], samples[q[2]], loci_names,
                                            cache, hasher_type, q[3], q[4], q[5])]
    /\ UNCHANGED <<cache, has_new_entries, disk>>
    /\ EngineFixed

CalculateDistanceMatrix ==
    /\ pc = "api"
    /\ op' = "calculate_distance_matrix"
    /\ arg' = NoArg
    /\ ret' = [q \in MatrixQueries |->
                  calculate_distance_matrix(samples, loci_names, cache, hasher_type,
                                            q[1], q[2], q[3])]
    /\ UNCHANGED <<cache, has_new_entries, disk>>
    /\ EngineFixed

\* the cache files loaded here: recorded under the engine's settings
DistFiles ==
    {f \in ExternalFiles :
        /\ f.format = "modern"
        /\ f.metadata.alignment_config = BaseConfig
        /\ f.metadata.hasher_type = "crc32"
        /\ f.metadata.distance_mode = "snps"
        /\ \A sk \in DOMAIN f.data : f.data[sk].seq1_length = None}

InitDist ==
    /\ cache = EmptyCache
    /\ has_new_entries = FALSE
    /\ config = BaseConfig
    /\ hasher_type \in Hashers
    /\ loci_names = <<LocusA, LocusB>>
    /\ samples \in Matrices(hasher_type, loci_names)
    /\ schema = [l \in {LocusA, LocusB} |-> {SeqA, SeqC}]
    /\ sequence_db \in from_schema_selective(schema,
                           extract_unique_crc_pairs(samples, loci_names))
    /\ disk = NoFile
    /\ op = "new"
    /\ arg = NoArg
    /\ ret = "Ok"
    /\ pc = "api"
    /\ args = DefaultArgs

NextDist ==
    \/ \E l \in {LocusA, LocusB}, c \in CrcArgs, e \in DistEntryArgs :
          CacheDistance(l, c[1], c[2], e)
    \/ PrecomputeAlignments(extract_unique_crc_pairs(samples, loci_names), args.mode)
    \/ \E f \in DistFiles : LoadCache(f)
    \/ GetDistance
    \/ CalculateSampleDistance
    \/ CalculateDistanceMatrix

SpecDist == InitDist /\ [][NextDist]_vars

-----------------------------------------------------------------------------
(* Specification of the command line program: run_main, run after run over
   the same cache file *)

\* the command lines of a run that names a cache file and a schema
RunArgs ==
    {[DefaultArgs EXCEPT !.force_recompute = fr, !.enrich_lengths = el,
                         !.cache_only = co] :
        fr \in BOOLEAN, el \in BOOLEAN, co \in BOOLEAN}

MainFixed == UNCHANGED <<config, hasher_type, sequence_db, schema, samples,
                         loci_names, args>>

\* run_main, lines 246-313: load the existing cache file
MainLoadCache ==
    /\ pc = "start"
    /\ hasher_type # "hamming" /\ args.cache_file
    /\ disk # NoFile /\ ~args.force_recompute
    /\ LET r == load_cache(cache, has_new_entries, config, hasher_type, disk)
       IN  /\ \E c \in r.caches :
                /\ cache' = c
                /\ pc' = IF r.ret = "Err" THEN "exit"
                         ELSE IF args.enrich_lengths \/ Cardinality(DOMAIN c) = 0
                         THEN "enrich" ELSE "precompute"
           /\ has_new_entries' = r.has_new_entries
           /\ ret' = r.ret
    /\ op' = "load_cache"
    /\ arg' = [file |-> disk]
    /\ UNCHANGED disk
    /\ MainFixed

\* run_main, line 248: no file at the cache path, or --force-recompute
MainNoCache ==
    /\ pc = "start"
    /\ hasher_type # "hamming" /\ args.cache_file
    /\ disk = NoFile \/ args.force_recompute
    /\ pc' = "precompute"
    /\ op' = "no_cache"
    /\ arg' = NoArg
    /\ ret' = "Ok"
    /\ UNCHANGED <<cache, has_new_entries, disk>>
    /\ MainFixed

\* run_main, lines 264-300 and 340-363 and 419-446: enrichment in place
MainEnrich ==
    /\ pc \in {"enrich", "auto_enrich"}
    /\ LET r == enrich_cache_with_lengths_from_input(schema, hasher_type, disk)
       IN  /\ disk' \in (IF r.ret = "Ok" THEN r.written ELSE {disk})
           /\ ret' = r.ret
    /\ pc' = IF pc = "enrich" THEN "precompute" ELSE "done"
    /\ op' = "enrich_cache"
    /\ arg' = NoArg
    /\ UNCHANGED <<cache, has_new_entries>>
    /\ MainFixed

\* run_main, lines 315-317
MainPrecompute ==
    /\ pc = "precompute"
    /\ \E r \in precompute_alignments(cache, has_new_entries, sequence_db,
                                      extract_unique_crc_pairs(samples, loci_names),
                                      args.mode) :
          /\ cache' = r[1]
          /\ has_new_entries' = r[2]
    /\ pc' = IF args.cache_only THEN "save" ELSE "matrix"
    /\ op' = "precompute_alignments"
    /\ arg' = [pairs |-> extract_unique_crc_pairs(samples, loci_names),
               mode |-> args.mode]
    /\ ret' = "Ok"
    /\ UNCHANGED disk
    /\ MainFixed

\* run_main, lines 387-409: the matrix is computed and written; the run ends
\* when the output cannot be written
MainMatrix ==
    /\ pc = "matrix"
    /\ pc' \in {"save", "exit"}
    /\ op' = "calculate_distance_matrix"
    /\ arg' = NoArg
    /\ ret' = calculate_distance_matrix(samples, loci_names, cache, hasher_type,
                                        args.mode, args.min_loci,
                                        args.no_hamming_fallback)
    /\ UNCHANGED <<cache, has_new_entries, disk>>
    /\ MainFixed

\* run_main, lines 329-333 and 411-417: the cache is saved when it has new entries
MainSaveCache ==
    /\ pc = "save"
    /\ hasher_type # "hamming" /\ args.cache_file
    /\ has_new_entries
    /\ \E r \in save_cache(cache, has_new_entries, config, hasher_type,
                           args.cache_note, args.mode) :
          /\ disk' = IF r.file = None THEN disk ELSE r.file[1]
          /\ has_new_entries' = r.has_new_entries
          /\ ret' = r.ret
          /\ pc' = IF r.ret = "Ok" /\ ~args.enrich_lengths THEN "auto_enrich"
                   ELSE "done"
    /\ op' = "save_cache"
    /\ arg' = [mode |-> args.mode]
    /\ UNCHANGED cache
    /\ MainFixed

\* run_main, lines 364-366 and 447-449: "Cache unchanged - skipping save"
MainSkipSave ==
    /\ pc = "save"
    /\ hasher_type # "hamming" /\ args.cache_file
    /\ ~has_new_entries
    /\ pc' = "done"
    /\ op' = "skip_save"
    /\ arg' = NoArg
    /\ ret' = "Ok"
    /\ UNCHANGED <<cache, has_new_entries, disk>>
    /\ MainFixed

\* the program is started again: run_main, lines 200-233, builds a new engine
MainStart(a) ==
    /\ pc \in {"done", "exit"}
    /\ disk.format = "modern" /\ disk.metadata.user_note # None
          => Len(disk.metadata.user_note[1]) < MaxNote
    /\ args' = a
    /\ cache' = EmptyCache
    /\ has_new_entries' = FALSE
    /\ pc' = "start"
    /\ op' = "new"
    /\ arg' = NoArg
    /\ ret' = "Ok"
    /\ UNCHANGED <<config, hasher_type, sequence_db, schema, samples,
                   loci_names, disk>>

InitMain ==
    /\ cache = EmptyCache
    /\ has_new_entries = FALSE
    /\ config = BaseConfig
    /\ hasher_type = "crc32"
    /\ loci_names = <<LocusA, LocusB>>
    /\ samples = FixedMatrix(loci_names)
    /\ schema = [l \in {LocusA, LocusB} |-> {SeqA, SeqC}]
    /\ sequence_db \in from_schema_selective(schema,
                           extract_unique_crc_pairs(samples, loci_names))
    /\ disk \in ExternalFiles \cup {NoFile}
    /\ op = "new"
    /\ arg = NoArg
    /\ ret = "Ok"
    /\ pc = "start"
    /\ args \in RunArgs

NextMain ==
    \/ MainLoadCache
    \/ MainNoCache
    \/ MainEnrich
    \/ MainPrecompute
    \/ MainMatrix
    \/ MainSaveCache
    \/ MainSkipSave
    \/ \E a \in RunArgs : MainStart(a)

SpecMain == InitMain /\ [][NextMain]_vars

-----------------------------------------------------------------------------
(* Properties of the distance assembler, checked under SpecDist *)

LociSet == {loci_names[n] : n \in 1..Len(loci_names)}

\* the loci at which both samples carry a non-missing fingerprint
NonMissingShared(i, j) ==
    {l \in LociSet : ~is_missing(samples[i][l]) /\ ~is_missing(samples[j][l])}

\* the loci at which both samples carry a 32-bit integer fingerprint
Crc32Shared(i, j) ==
    {l \in LociSet : as_crc32(samples[i][l]) # None /\ as_crc32(samples[j][l]) # None}

\* the loci at which both samples are non-missing and differ by fingerprint
Differing(i, j) ==
    {l \in NonMissingShared(i, j) : samples[i][l] # samples[j][l]}

\* C1: calculate_sample_distance(a, b) and calculate_sample_distance(b, a) are
\* both undefined or the same number, for every mode, min_loci and fallback
\* flag, and every matrix has m[i][j] = m[j][i].
C1_Symmetric ==
    /\ op = "calculate_sample_distance"
         => \A q \in SampleQueries : ret[q] = ret[<<q[2], q[1], q[3], q[4], q[5]>>]
    /\ op = "calculate_distance_matrix"
         => \A q \in MatrixQueries : \A i \in 1..2, j \in 1..2 :
               ret[q][i][j] = ret[q][j][i]

\* two samples are two indel bases apart by a cache entry, asked in both orders
C1_Witness ==
    /\ op = "calculate_sample_distance"
    /\ hasher_type = "crc32"
    /\ cache # EmptyCache
    /\ ret[<<1, 2, "SnpsAndIndelBases", 0, FALSE>>] = Some(2)
    /\ ret[<<2, 1, "SnpsAndIndelBases", 0, FALSE>>] = Some(2)

C3_MinLociRule ==
    LET expected(i, j, mode, min_loci, flag) ==
            IF Cardinality(NonMissingShared(i, j)) < min_loci THEN None
            ELSE Some(SumDistance(cache, hasher_type, samples[i], samples[j],
                                  loci_names, Len(loci_names), mode, flag)[1])
    IN  /\ op = "calculate_sample_distance"
             => \A q \in SampleQueries :
                   q[1] # q[2] => ret[q] = expected(q[1], q[2], q[3], q[4], q[5])
        /\ op = "calculate_distance_matrix"
             => \A q \in MatrixQueries : \A i \in 1..2, j \in 1..2 :
                   i # j => ret[q][i][j] = expected(i, j, q[1], q[2], q[3])

\* C4: with an empty cache and mode SnpsOnly, two samples that differ at
\* exactly k loci (both non-missing there) have distance k when
\* no_hamming_fallback is false and distance 0 when it is true.
C4_HammingFallback ==
    (op = "calculate_sample_distance" /\ cache = EmptyCache)
      => \A i \in 1..2, j \in 1..2 :
            /\ ret[<<i, j, "SnpsOnly", 0, FALSE>>] = Some(Cardinality(Differing(i, j)))
            /\ ret[<<i, j, "SnpsOnly", 0, TRUE>>] = Some(0)

-----------------------------------------------------------------------------
(* Properties of the cache file operations, checked under Spec *)

\* the four numbers of two alignment configs agree
same_numbers(c1, c2) ==
    /\ c1.match_score = c2.match_score
    /\ c1.mismatch_penalty = c2.mismatch_penalty
    /\ c1.gap_open = c2.gap_open
    /\ c1.gap_extend = c2.gap_extend

\* the step is a call of load_cache on a version-2 file
LoadsModern == op' = "load_cache" /\ arg'.file.format = "modern"

\* C5: load_cache returns an error for every version-2 file whose recorded
\* four alignment numbers or hasher type differ from the engine's, and then the
\* engine's entries are the ones it had before the call; it succeeds when the
\* recorded alignment config and hasher type are the engine's, whatever the
\* recorded distance mode is.
C5_LoadRefusesMismatch ==
    [][LoadsModern =>
          LET m == arg'.file.metadata
          IN  /\ (~same_numbers(m.alignment_config, config)
                  \/ m.hasher_type # hasher_type)
                    => (ret' = "Err" /\ cache' = cache)
              /\ (m.alignment_config = config /\ m.hasher_type = hasher_type)
                    => ret' = "Ok"]_vars

\* a non-empty engine cache has survived the refusal of a file recorded under
\* other alignment numbers
C5_Witness ==
    /\ op = "load_cache" /\ ret = "Err"
    /\ arg.file.format = "modern"
    /\ ~same_numbers(arg.file.metadata.alignment_config, config)
    /\ cache # EmptyCache

\* C6: load_cache accepts every version-2 file whose four recorded alignment
\* numbers and hasher type equal the engine's, whatever the description texts
\* of the two configs are.
C6_EqualByFourNumbers ==
    [][LoadsModern =>
          LET m == arg'.file.metadata
          IN  (same_numbers(m.alignment_config, config)
               /\ m.hasher_type = hasher_type) => ret' = "Ok"]_vars

\* C7: a load_cache of the file a successful save_cache has just written
\* succeeds and leaves the engine with exactly the entries it had before the
\* save, and every saved document carries format_version 2.
C7_SaveLoadRoundTrip ==
    [][/\ (op' = "save_cache" /\ ret' = "Ok")
             => disk'.metadata.format_version = 2
       /\ (op = "save_cache" /\ ret = "Ok" /\ op' = "load_cache"
           /\ arg'.file = disk)
             => (ret' = "Ok" /\ cache' = cache)]_vars

\* C8: every key of the cache has fingerprint_low <= fingerprint_high.
C8_KeysCanonical ==
    \A key \in DOMAIN cache : key[2] <= key[3]

\* C10: when save_cache follows the load of a version-2 file, every entry that
\* carried sequence lengths in the loaded file carries the same lengths in the
\* written file.
C10_LengthsPersist ==
    [][(/\ op = "load_cache" /\ ret = "Ok" /\ arg.file.format = "modern"
        /\ op' = "save_cache" /\ ret' = "Ok")
          => \A sk \in DOMAIN arg.file.data :
                LET v == arg.file.data[sk]
                IN  (v.seq1_length # None /\ v.seq2_length # None)
                      => /\ sk \in DOMAIN disk'.data
                         /\ disk'.data[sk].seq1_length = v.seq1_length
                         /\ disk'.data[sk].seq2_length = v.seq2_length]_vars

-----------------------------------------------------------------------------
(* Properties of the dirty flag, checked under SpecMain *)

\* the steps that leave the flag as it is, whatever they return
FlagKept ==
    op' \in {"enrich_cache", "calculate_distance_matrix", "no_cache", "skip_save"}
      => has_new_entries' = has_new_entries

\* the flag after a step of the engine
FlagStep ==
    /\ op' = "new" => ~has_new_entries'
    /\ op' \in {"load_cache", "save_cache"}
         => has_new_entries' = IF ret' = "Ok" THEN FALSE ELSE has_new_entries
    /\ op' \in {"cache_distance", "precompute_alignments"}
         => has_new_entries' = (has_new_entries \/ cache' # cache)

\* C9: the flag is clean on creation and after every successful load or save,
\* and dirty after any insert made since; a failed load or save and an
\* enrichment leave it as it is; the pipeline calls save_cache only when the
\* flag is dirty (the enrichment rewrites the file whatever the flag is).
C9_DirtyFlag ==
    /\ ~has_new_entries
    /\ [][/\ FlagStep
          /\ FlagKept
          /\ op' = "save_cache" => has_new_entries]_vars

\* a run has saved the entries it computed, and the flag is clean again
C9_Witness ==
    /\ op = "save_cache" /\ ret = "Ok"
    /\ cache # EmptyCache
    /\ ~has_new_entries

\* C9 as stated: the flag is also dirty after an enrichment, and the cache
\* file is written only when the flag is dirty.
C9_DirtyAfterEnrich ==
    /\ ~has_new_entries
    /\ [][/\ FlagStep
          /\ (op' = "enrich_cache" /\ ret' = "Ok") => has_new_entries'
          /\ disk' # disk => has_new_entries]_vars

-----------------------------------------------------------------------------
(* Atomicity of save_cache, checked under Spec *)

\* the complete documents a save of the engine's cache can write
CompleteSaves ==
    {r.file[1] : r \in {x \in save_cache(cache, has_new_entries, config, hasher_type,
                                          args.cache_note, args.mode) :
                           x.ret = "Ok"}}

\* C11: after a call of save_cache, failed or not, the file at cache_path is
\* the complete previous file or a complete new document, never a partly
\* written one.
C11_AtomicSave ==
    [][op' = "save_cache" => (disk' = disk \/ disk' \in CompleteSaves)]_vars

-----------------------------------------------------------------------------
(* Quality filters: AllelicMatrix::apply_quality_filters on the matrix
   <<samples, loci_names>>.  A threshold is the fraction k / ThresholdDen; a
   regex or a set of locus names is the set of the names it accepts, None
   when the filter is not given. *)

\* thresholds are multiples of 1 / ThresholdDen
ThresholdDen == 2

\* present as f64 / total as f64 >= k / ThresholdDen ; 0 / 0 is NaN, and no
\* comparison with NaN holds
completeness_ge(present, total, k) ==
    total # 0 /\ present * ThresholdDen >= k * total

Elements(v) == {v[n] : n \in 1..Len(v)}

\* loci_hashes.retain(|locus, _| loci_names_set.contains(locus)) on every sample
retain_loci(smp, names) ==
    [i \in 1..Len(smp) |-> [l \in (DOMAIN smp[i]) \cap names |-> smp[i][l]]]

\* the number of non-missing hashes of a sample
present_loci(sample) ==
    Cardinality({l \in DOMAIN sample : ~is_missing(sample[l])})

\* the number of samples with a non-missing hash at the locus
present_samples(smp, locus) ==
    Cardinality({i \in 1..Len(smp) :
                    locus \in DOMAIN smp[i] /\ ~is_missing(smp[i][locus])})

\* apply_quality_filters : the matrix it leaves and its result
\* (Vec::retain is SelectSeq)
apply_quality_filters(smp, loci, sample_threshold, locus_threshold, loci_include, loci_exclude, loci_include_set, loci_exclude_set) ==
    LET kept1 == SelectSeq(loci, LAMBDA l : loci_include = None \/ l \in loci_include[1])
        kept2 == SelectSeq(kept1, LAMBDA l : loci_exclude = None \/ l \notin loci_exclude[1])
        kept3 == SelectSeq(kept2, LAMBDA l : loci_include_set = None
                                            \/ l \in loci_include_set[1])
        loci1 == SelectSeq(kept3, LAMBDA l : loci_exclude_set = None
                                            \/ l \notin loci_exclude_set[1])
        smp1 == retain_loci(smp, Elements(loci1))
        smp2 == IF sample_threshold > 0
                THEN SelectSeq(smp1, LAMBDA s : completeness_ge(present_loci(s), Len(loci1),
                                                             sample_threshold))
                ELSE smp1
        loci2 == IF locus_threshold > 0
                 THEN SelectSeq(loci1, LAMBDA l : completeness_ge(present_samples(smp2, l),
                                                               Len(smp2), locus_threshold))
                 ELSE loci1
        smp3 == retain_loci(smp2, Elements(loci2))
    IN  [samples |-> smp3, loci_names |-> loci2,
         ret |-> IF Len(smp3) = 0 \/ Len(loci2) = 0 THEN "Err" ELSE "Ok"]

Thresholds == 0..ThresholdDen

\* the loci filters of a call: none, or one of the four
LociFilters ==
    {<<None, None, None, None>>,
     <<Some({LocusA}), None, None, None>>, <<None, Some({LocusB}), None, None>>,
     <<None, None, Some({LocusA}), None>>, <<None, None, None, Some({LocusB})>>}

ApplyQualityFilters(sample_threshold, locus_threshold, f) ==
    /\ pc = "filter"
    /\ LET r == apply_quality_filters(samples, loci_names, sample_threshold,
                                      locus_threshold, f[1], f[2], f[3], f[4])
       IN  /\ samples' = r.samples
           /\ loci_names' = r.loci_names
           /\ ret' = r.ret
    /\ op' = "apply_quality_filters"
    /\ arg' = [sample_threshold |-> sample_threshold,
               locus_threshold |-> locus_threshold, filters |-> f]
    /\ UNCHANGED <<cache, has_new_entries, config, hasher_type, sequence_db, schema,
                   disk, pc, args>>

\* the samples of a profiles file over the loci a and b
FilterSamples == [{LocusA, LocusB} -> {Crc32(1), Missing}]

InitFilter ==
    /\ loci_names = <<LocusA, LocusB>>
    /\ samples \in [1..3 -> FilterSamples]
    /\ cache = EmptyCache
    /\ has_new_entries = FALSE
    /\ config = BaseConfig
    /\ hasher_type = "crc32"
    /\ schema = [l \in {} |-> {}]
    /\ sequence_db = [k \in {} |-> <<>>]
    /\ disk = NoFile
    /\ op = "new"
    /\ arg = NoArg
    /\ ret = "Ok"
    /\ pc = "filter"
    /\ args = DefaultArgs

NextFilter ==
    \E st \in Thresholds, lt \in Thresholds, f \in LociFilters :
        ApplyQualityFilters(st, lt, f)

SpecFilter == InitFilter /\ [][NextFilter]_vars

\* C12: after a successful apply_quality_filters, every remaining sample's
\* fraction of non-missing cells over the remaining loci is at least
\* sample_threshold, and every remaining locus's fraction of non-missing cells
\* over the remaining samples is at least locus_threshold.
C12_ThresholdsHold ==
    (op = "apply_quality_filters" /\ ret = "Ok")
      => /\ \A i \in 1..Len(samples) :
               present_loci(samples[i]) * ThresholdDen
                  >= arg.sample_threshold * Len(loci_names)
         /\ \A l \in Elements(loci_names) :
               present_samples(samples, l) * ThresholdDen
                  >= arg.locus_threshold * Len(samples)

\* C13: a second apply_quality_filters with the arguments of a first,
\* successful one leaves the samples, the loci and all cells as they are.
C13_FiltersIdempotent ==
    [][(/\ op = "apply_quality_filters" /\ ret = "Ok"
        /\ op' = "apply_quality_filters" /\ arg' = arg)
          => (samples' = samples /\ loci_names' = loci_names)]_vars

-----------------------------------------------------------------------------
(* Frame of the enrichment, checked under Spec *)

\* the fingerprints that load_schema_with_crc_mapping maps to a length
SchemaCrcs == UNION {DOMAIN m : m \in crc_to_length_maps(schema, hasher_type)}

\* the n-th fingerprint of a key is a number that the schema maps to a length
Found(sk, n) ==
    LET parts == split(sk, ":")
    IN  /\ Len(parts) >= 3
        /\ parse_u32(parts[n + 1]) # None
        /\ parse_u32(parts[n + 1])[1] \in SchemaCrcs

\* an enrichment that wrote its output
Enriched == op' = "enrich_cache" /\ ret' = "Ok"

\* the key set and the statistics of every entry are those of the input
EnrichKeepsStats ==
    /\ disk'.format = "modern"
    /\ DOMAIN disk'.data = DOMAIN disk.data
    /\ \A sk \in DOMAIN disk.data :
          /\ disk'.data[sk].snps = disk.data[sk].snps
          /\ disk'.data[sk].indel_events = disk.data[sk].indel_events
          /\ disk'.data[sk].indel_bases = disk.data[sk].indel_bases
          /\ disk'.data[sk].computed_at = disk.data[sk].computed_at

\* C14: enrichment keeps the key set and, in every entry, snps, indel_events,
\* indel_bases and computed_at; an entry whose two fingerprints are not both
\* found in the schema is identical to the input entry.
C14_EnrichFrame ==
    [][Enriched
         => /\ EnrichKeepsStats
            /\ \A sk \in DOMAIN disk.data :
                  ~(Found(sk, 1) /\ Found(sk, 2)) => disk'.data[sk] = disk.data[sk]]_vars

\* C14, amended: enrichment keeps the key set and, in every entry, snps,
\* indel_events, indel_bases and computed_at; the length of a sequence whose
\* fingerprint is not found in the schema is the one of the input entry, so an
\* entry with neither fingerprint found is identical to the input entry.
C14_EnrichFrameFound ==
    [][Enriched
         => /\ EnrichKeepsStats
            /\ \A sk \in DOMAIN disk.data :
                  /\ ~Found(sk, 1) => disk'.data[sk].seq1_length = disk.data[sk].seq1_length
                  /\ ~Found(sk, 2) => disk'.data[sk].seq2_length = disk.data[sk].seq2_length
                  /\ (~Found(sk, 1) /\ ~Found(sk, 2)) => disk'.data[sk] = disk.data[sk]]_vars

\* an enrichment has written an entry of which one fingerprint only is found,
\* with the length of the found one set and the other length as it was
C14_Witness ==
    /\ op = "enrich_cache" /\ ret = "Ok" /\ disk.format = "modern"
    /\ \E sk \in DOMAIN disk.data :
          /\ Found(sk, 1) /\ ~Found(sk, 2)
          /\ disk.data[sk].seq1_length # None
          /\ disk.data[sk].seq2_length = None

-----------------------------------------------------------------------------
(* The assembler over every fingerprint variant, checked under SpecDist *)

\* C15: at every locus where both samples carry a non-missing fingerprint the
\* locus counts as shared, and the alleles differ exactly when the
\* fingerprints are unequal, whatever the variant of the fingerprints: the
\* distance of two samples is undefined exactly when fewer than min_loci loci
\* have both fingerprints non-missing, it is 0 when no such locus has unequal
\* fingerprints, and in mode SnpsOnly with the Hamming fallback allowed it is
\* at least the number of such loci with unequal fingerprints.
C15_AnyFingerprint ==
    op = "calculate_sample_distance"
      => \A q \in SampleQueries :
            LET shared == NonMissingShared(q[1], q[2])
                differing == Differing(q[1], q[2])
            IN  /\ ret[q] = None <=> Cardinality(shared) < q[4]
                /\ (ret[q] # None /\ differing = {}) => ret[q] = Some(0)
                /\ (ret[q] # None /\ q[3] = "SnpsOnly" /\ ~q[5])
                      => ret[q][1] >= Cardinality(differing)

-----------------------------------------------------------------------------
(* The schema load paths: the full load of a directory or schema file, and
   the selective load of the fingerprints the profiles need *)

\* a locus of the schema holds two distinct sequences of one fingerprint
Collides(schm, locus) ==
    \E s1 \in schm[locus], s2 \in schm[locus] :
        s1 # s2 /\ compute_crc32(s1) = compute_crc32(s2)

\* SequenceDatabase::from_schema_file : load_fasta_into_locus on every locus,
\* which returns Err at the first record whose fingerprint the locus already
\* holds with another sequence
from_schema_file(schm) ==
    IF \E l \in DOMAIN schm : Collides(schm, l) THEN [ret |-> "Err", db |-> <<>>]
    ELSE LET records == {r \in (DOMAIN schm) \X UNION {schm[x] : x \in DOMAIN schm} :
                            r[2] \in schm[r[1]]}
         IN  [ret |-> "Ok",
              db |-> [k \in {<<r[1], compute_crc32(r[2])>> : r \in records} |->
                         CHOOSE sq \in schm[k[1]] : compute_crc32(sq) = k[2]]]

\* the schemas: every locus file with any of the three sequences
Schemas == [{LocusA, LocusB} -> SUBSET {SeqA, SeqC, SeqAC}]

FromSchemaFile ==
    /\ pc = "schema"
    /\ LET r == from_schema_file(schema)
       IN  /\ ret' = r.ret
           /\ sequence_db' = r.db
    /\ op' = "from_schema_file"
    /\ arg' = NoArg
    /\ UNCHANGED <<cache, has_new_entries, disk, config, hasher_type, schema, samples,
                   loci_names, pc, args>>

FromSchemaSelective ==
    /\ pc = "schema"
    /\ sequence_db' \in from_schema_selective(schema,
                            extract_unique_crc_pairs(samples, loci_names))
    /\ ret' = "Ok"
    /\ op' = "from_schema_selective"
    /\ arg' = NoArg
    /\ UNCHANGED <<cache, has_new_entries, disk, config, hasher_type, schema, samples,
                   loci_names, pc, args>>

InitSchema ==
    /\ schema \in Schemas
    /\ loci_names = <<LocusA, LocusB>>
    /\ samples = FixedMatrix(loci_names)
    /\ sequence_db = <<>>
    /\ cache = EmptyCache
    /\ has_new_entries = FALSE
    /\ config = BaseConfig
    /\ hasher_type = "crc32"
    /\ disk = NoFile
    /\ op = "new"
    /\ arg = NoArg
    /\ ret = "Ok"
    /\ pc = "schema"
    /\ args = DefaultArgs

NextSchema == FromSchemaFile \/ FromSchemaSelective

SpecSchema == InitSchema /\ [][NextSchema]_vars

\* C16: in every schema load path, a locus with two records of the same
\* fingerprint and different sequences makes the load fail: the load never
\* returns a database that holds one of the two.
C16_CollisionFatal ==
    (/\ op \in {"from_schema_file", "from_schema_selective"}
     /\ \E l \in DOMAIN schema : Collides(schema, l))
      => ret = "Err"

-----------------------------------------------------------------------------
(* Loading a profiles file *)

RECURSIVE trim_start(_)
trim_start(s) == IF Len(s) > 0 /\ Head(s) = " " THEN trim_start(Tail(s)) ELSE s

RECURSIVE trim_end(_)
trim_end(s) ==
    IF Len(s) > 0 /\ s[Len(s)] = " " THEN trim_end(SubSeq(s, 1, Len(s) - 1)) ELSE s

\* str::trim
trim(s) == trim_end(trim_start(s))

NA == <<"N", "A">>

\* AlleleHasher::parse_allele of the hasher registered under a name:
\* Ok(h) as <<h>>, Err as <<>>
parse_allele(ht, allele_str, missing_char) ==
    LET cleaned == trim(allele_str)
    IN  IF cleaned = <<>> \/ cleaned = NA \/ cleaned = missing_char THEN Some(Missing)
        ELSE IF ht \in {"crc32", "hamming"}
             THEN IF parse_u32(cleaned) = None THEN None
                  ELSE Some(from_crc32(parse_u32(cleaned)[1]))
             ELSE Some(hash_sequence(ht, cleaned))

\* AllelicMatrix::from_tsv_with_hasher on a file given as its header and rows,
\* each a sequence of tab-separated parts
from_tsv_with_hasher(file, missing_char, ht) ==
    IF Len(file.header) < 2 THEN [ret |-> "Err", samples |-> <<>>, loci_names |-> <<>>]
    ELSE IF \E n \in 1..Len(file.rows) : Len(file.rows[n]) # Len(file.header)
         THEN [ret |-> "Err", samples |-> <<>>, loci_names |-> <<>>]
    ELSE LET loci == Tail(file.header)
             hash(n, i) == parse_allele(ht, file.rows[n][i + 1], missing_char)
         IN  IF \E n \in 1..Len(file.rows), i \in 1..Len(loci) : hash(n, i) = None
             THEN [ret |-> "Err", samples |-> <<>>, loci_names |-> <<>>]
             ELSE [ret |-> "Ok",
                   samples |-> [n \in 1..Len(file.rows) |->
                                  [l \in Elements(loci) |->
                                     LET i == CHOOSE k \in 1..Len(loci) :
                                                  loci[k] = l /\ \A m \in (k + 1)..Len(loci) :
                                                                    loci[m] # l
                                     IN  hash(n, i)[1]]],
                   loci_names |-> loci]

\* the texts of a cell: empty, NA, the default marker, 0, an allele number,
\* one with a blank before it, the largest 32-bit number, and a word
CellTexts ==
    {<<>>, NA, <<"-">>, <<"0">>, <<"1">>, <<" ", "1">>, to_string(U32_MAX), <<"x">>}

\* the configured missing markers
MissingChars == {<<"-">>, <<"0">>}

\* the profiles files: two samples over one locus, or a bare header
ProfileFiles ==
    {[header |-> <<<<"I", "D">>, LocusA>>, rows |-> <<<<<<"s", "1">>, c1>>, <<<<"s", "2">>, c2>>>>] :
        c1 \in CellTexts, c2 \in CellTexts}
    \cup {[header |-> <<<<"I", "D">>>>, rows |-> <<>>],
          [header |-> <<<<"I", "D">>, LocusA>>, rows |-> <<<<<<"s", "1">>>>>>]}

FromTsvWithHasher(file, missing_char) ==
    /\ pc = "load"
    /\ LET r == from_tsv_with_hasher(file, missing_char, hasher_type)
       IN  /\ ret' = r.ret
           /\ samples' = r.samples
           /\ loci_names' = r.loci_names
    /\ op' = "from_tsv_with_hasher"
    /\ arg' = [file |-> file, missing_char |-> missing_char]
    /\ UNCHANGED <<cache, has_new_entries, disk, config, hasher_type, schema,
                   sequence_db, pc, args>>

InitLoad ==
    /\ hasher_type \in Hashers
    /\ samples = <<>>
    /\ loci_names = <<>>
    /\ schema = [l \in {LocusA} |-> {SeqA, SeqC}]
    /\ sequence_db = <<>>
    /\ cache = EmptyCache
    /\ has_new_entries = FALSE
    /\ config = BaseConfig
    /\ disk = NoFile
    /\ op = "new"
    /\ arg = NoArg
    /\ ret = "Ok"
    /\ pc = "load"
    /\ args = DefaultArgs

NextLoad == \E file \in ProfileFiles, missing_char \in MissingChars :
               FromTsvWithHasher(file, missing_char)

SpecLoad == InitLoad /\ [][NextLoad]_vars

\* the cell of sample n in the file that was loaded
Cell(n) == arg.file.rows[n][2]

\* C17: when a profiles file is loaded, a cell equal to the configured missing
\* marker, to NA, to 0, or empty is the missing fingerprint in the matrix.
C17_MissingCells ==
    (op = "from_tsv_with_hasher" /\ ret = "Ok")
      => \A n \in 1..Len(samples) :
            Cell(n) \in {arg.missing_char, NA, <<"0">>, <<>>}
              => is_missing(samples[n][LocusA])

-----------------------------------------------------------------------------
(* Order of the three statistics of a cached pair, checked under Spec *)

\* indel_events does not exceed indel_bases, so that
\* snps <= snps + indel_events <= snps + indel_bases
Ordered(entry) ==
    /\ entry.snps <= entry.snps + entry.indel_events
    /\ entry.snps + entry.indel_events <= entry.snps + entry.indel_bases

-----------------------------------------------------------------------------
(* The recombination scan (bin/recombination.rs) *)

\* the characters of sample ids and alleles, in byte order
Alphabet == <<"-", "0", "1", "2", "3", "4", "5", "6", "7", "8", "9", "s">>

Code(ch) == CHOOSE i \in 1..Len(Alphabet) : Alphabet[i] = ch

RECURSIVE str_le(_, _)
\* String <= String : byte-wise lexicographic order
str_le(s, t) ==
    IF Len(s) = 0 THEN TRUE
    ELSE IF Len(t) = 0 THEN FALSE
    ELSE IF Head(s) = Head(t) THEN str_le(Tail(s), Tail(t))
    ELSE Code(Head(s)) < Code(Head(t))

\* the test of an allele text that the scan uses for "present"
allele_present(allele, missing_char) ==
    allele # <<"0">> /\ allele # missing_char /\ allele # <<>>

\* create_mapping_from_profiles : [ret, profile_mapping, sample_profiles], the
\* rows of the file in file order, each [name, alleles]
create_mapping_from_profiles(rows, efsa_loci, missing_char) ==
    LET mapped(n, l) == /\ l \in efsa_loci
                        /\ allele_present(rows[n].alleles[l], missing_char)
        hash(n, l) == parse_allele("crc32", rows[n].alleles[l], missing_char)
        cells == {c \in (1..Len(rows)) \X UNION {DOMAIN rows[n].alleles : n \in 1..Len(rows)} :
                     c[2] \in DOMAIN rows[c[1]].alleles /\ mapped(c[1], c[2])}
        entries == {c \in cells : hash(c[1], c[2]) # None
                                    /\ hash(c[1], c[2])[1].tag = "Crc32"}
        key(c) == <<c[2], hash(c[1], c[2])[1].val>>
        last(k) == CHOOSE c \in entries :
                      key(c) = k /\ \A d \in entries : key(d) = k => d[1] <= c[1]
    IN  IF \E c \in cells : hash(c[1], c[2]) = None
        THEN [ret |-> "Err", profile_mapping |-> <<>>, sample_profiles |-> <<>>]
        ELSE [ret |-> "Ok",
              profile_mapping |-> [k \in {key(c) : c \in entries} |-> rows[last(k)[1]].name],
              sample_profiles |->
                 [name \in {rows[n].name : n \in 1..Len(rows)} |->
                    rows[CHOOSE n \in 1..Len(rows) :
                            rows[n].name = name
                              /\ \A m \in (n + 1)..Len(rows) : rows[m].name # name].alleles]]

\* filter_loci_by_completeness, the threshold a whole percentage
filter_loci_by_completeness(sample_profiles, efsa_loci, missing_char, completeness_threshold) ==
    IF completeness_threshold <= 0 THEN efsa_loci
    ELSE {l \in efsa_loci :
            Cardinality({s \in DOMAIN sample_profiles :
                           /\ l \in DOMAIN sample_profiles[s]
                           /\ allele_present(sample_profiles[s][l], missing_char)}) * 100
              >= completeness_threshold * Cardinality(DOMAIN sample_profiles)}

\* filter_samples_by_completeness, the threshold a whole percentage
filter_samples_by_completeness(sample_profiles, efsa_loci, missing_char, completeness_threshold) ==
    IF completeness_threshold <= 0 THEN sample_profiles
    ELSE LET kept == {s \in DOMAIN sample_profiles :
                        /\ efsa_loci # {}
                        /\ Cardinality({l \in efsa_loci :
                                          /\ l \in DOMAIN sample_profiles[s]
                                          /\ allele_present(sample_profiles[s][l], missing_char)})
                              * 100 >= completeness_threshold * Cardinality(efsa_loci)}
         IN  [s \in kept |-> sample_profiles[s]]

\* the Hamming distance of two samples over the loci: the loci where both
\* alleles are present and differ
hamming_dist(sample_profiles, sample1, sample2, efsa_loci, missing_char) ==
    LET allele(s, l) == IF l \in DOMAIN sample_profiles[s] THEN sample_profiles[s][l]
                        ELSE missing_char
    IN  Cardinality({l \in efsa_loci :
                       /\ allele_present(allele(sample1, l), missing_char)
                       /\ allele_present(allele(sample2, l), missing_char)
                       /\ allele(sample1, l) # allele(sample2, l)})

\* calculate_hamming_distance_matrix_parallel : the pairs within the
\* threshold; samples is the vector the keys of the HashMap are collected into
calculate_hamming_distance_matrix_parallel(sample_profiles, efsa_loci, missing_char, threshold, smp) ==
    {<<smp[p[1]], smp[p[2]]>> :
        p \in {q \in (1..Len(smp)) \X (1..Len(smp)) :
                  /\ q[1] < q[2]
                  /\ hamming_dist(sample_profiles, smp[q[1]], smp[q[2]], efsa_loci,
                                  missing_char) <= threshold}}

\* the orders in which the elements of a set can be visited
Orders(S) ==
    {f \in [1..Cardinality(S) -> S] : \A i, j \in 1..Cardinality(S) : i # j => f[i] # f[j]}

\* main, lines 497-503 : the pair that is looked up in valid_pairs
normalized_pair(sample1, sample2) ==
    IF str_le(sample1, sample2) THEN <<sample1, sample2>> ELSE <<sample2, sample1>>

\* the events of a sequence of pushed events, as the tuples (sample1, sample2,
\* locus, allele1, allele2, snps, indel_events)
event_tuples(pushed) ==
    {<<pushed[n].sample1, pushed[n].sample2, pushed[n].locus, pushed[n].allele1,
       pushed[n].allele2, pushed[n].snps, pushed[n].indel_events>> : n \in 1..Len(pushed)}

\* main, lines 453-565 : the vector of events pushed by the scan of the cache
\* entries, visited in the given order
scan_cache(data, order, profile_mapping, valid_pairs, efsa_loci, threshold_percent) ==
    LET parts(sk) == split(sk, ":")
        pre(sk) == /\ Len(parts(sk)) = 3
                   /\ parts(sk)[1] \in efsa_loci
                   /\ parts(sk)[2] # parts(sk)[3]
        crc1(sk) == unwrap_or(parse_u32(parts(sk)[2]), 0)
        crc2(sk) == unwrap_or(parse_u32(parts(sk)[3]), 0)
        pair_key(sk) == <<parts(sk)[1], Min(crc1(sk), crc2(sk)),
                          IF crc1(sk) <= crc2(sk) THEN crc2(sk) ELSE crc1(sk)>>
        fresh(n) == /\ pre(order[n])
                    /\ \A m \in 1..(n - 1) :
                          ~(pre(order[m]) /\ pair_key(order[m]) = pair_key(order[n]))
        owned(sk) == /\ <<parts(sk)[1], crc1(sk)>> \in DOMAIN profile_mapping
                     /\ <<parts(sk)[1], crc2(sk)>> \in DOMAIN profile_mapping
        sample1(sk) == profile_mapping[<<parts(sk)[1], crc1(sk)>>]
        sample2(sk) == profile_mapping[<<parts(sk)[1], crc2(sk)>>]
        dense(entry) ==
            /\ entry.seq1_length # None /\ entry.seq2_length # None
            /\ entry.seq1_length[1] # 0 /\ entry.seq2_length[1] # 0
            /\ (entry.snps + entry.indel_events) * 200
                 > threshold_percent * (entry.seq1_length[1] + entry.seq2_length[1])
        emitting == {m \in 1..Len(order) :
                        /\ fresh(m)
                        /\ owned(order[m])
                        /\ normalized_pair(sample1(order[m]), sample2(order[m])) \in valid_pairs
                        /\ dense(data[order[m]])}
        nth(k) == CHOOSE m \in emitting : Cardinality({x \in emitting : x < m}) = k - 1
    IN  [k \in 1..Cardinality(emitting) |->
            [sample1 |-> sample1(order[nth(k)]), sample2 |-> sample2(order[nth(k)]),
             locus |-> parts(order[nth(k)])[1],
             allele1 |-> parts(order[nth(k)])[2], allele2 |-> parts(order[nth(k)])[3],
             snps |-> data[order[nth(k)]].snps,
             indel_events |-> data[order[nth(k)]].indel_events,
             len1 |-> data[order[nth(k)]].seq1_length[1],
             len2 |-> data[order[nth(k)]].seq2_length[1]]]

\* the snp_density of event a is greater than that of event b
\* (snps / avg_length * 100, compared without division)
snp_density_gt(a, b) == a.snps * (b.len1 + b.len2) > b.snps * (a.len1 + a.len2)

\* main, line 574 : recombination_events.sort_by(|a, b| b.9.partial_cmp(&a.9)),
\* a stable sort by field 9 of the event tuple, the snp_density, descending
sort_by_field_9(pushed) ==
    LET before(m, n) == \/ snp_density_gt(pushed[m], pushed[n])
                        \/ (~snp_density_gt(pushed[n], pushed[m]) /\ m < n)
        rank(n) == 1 + Cardinality({m \in 1..Len(pushed) : m # n /\ before(m, n)})
    IN  [k \in 1..Len(pushed) |-> pushed[CHOOSE n \in 1..Len(pushed) : rank(n) = k]]

\* main, lines 556-562 : the loci of the events of each ordered sample pair
pairwise_recombination(pushed) ==
    LET pair(n) == normalized_pair(pushed[n].sample1, pushed[n].sample2)
    IN  [p \in {pair(n) : n \in 1..Len(pushed)} |->
            {pushed[n].locus : n \in {m \in 1..Len(pushed) : pair(m) = p}}]

\* main of the recombination analyzer with the default locus and sample
\* thresholds (0.0) : the results it can end with
main(cache_file, rows, include_loci_list, missing_char, hamming_threshold, threshold_percent) ==
    LET efsa_loci == IF include_loci_list = None THEN {} ELSE include_loci_list[1]
        failed == [ret |-> "Err", filtered_efsa_loci |-> {}, valid_pairs |-> {},
                   recombination_events |-> {}, events_table |-> <<>>,
                   pairwise_recombination |-> <<>>]
        mapping == create_mapping_from_profiles(rows, efsa_loci, missing_char)
        sample_profiles == mapping.sample_profiles
        final_efsa_loci ==
            IF efsa_loci # {} THEN {efsa_loci}
            ELSE IF DOMAIN sample_profiles = {} THEN {{}}
            ELSE {DOMAIN sample_profiles[first] : first \in DOMAIN sample_profiles}
    IN  IF cache_file.format # "modern" \/ mapping.ret = "Err" THEN {failed}
        ELSE UNION {
               LET filtered_efsa_loci ==
                       filter_loci_by_completeness(sample_profiles, final, missing_char, 0)
                   filtered_sample_profiles ==
                       filter_samples_by_completeness(sample_profiles, filtered_efsa_loci,
                                                      missing_char, 0)
               IN  UNION {
                     LET valid_pairs ==
                             calculate_hamming_distance_matrix_parallel(
                                 filtered_sample_profiles, filtered_efsa_loci, missing_char,
                                 hamming_threshold, smp)
                     IN  {LET pushed == scan_cache(cache_file.data, order,
                                                   mapping.profile_mapping, valid_pairs,
                                                   filtered_efsa_loci, threshold_percent)
                          IN  [ret |-> "Ok",
                               filtered_efsa_loci |-> filtered_efsa_loci,
                               valid_pairs |-> valid_pairs,
                               recombination_events |-> event_tuples(pushed),
                               events_table |-> sort_by_field_9(pushed),
                               pairwise_recombination |-> pairwise_recombination(pushed)] :
                            order \in Orders(DOMAIN cache_file.data)} :
                     smp \in Orders(DOMAIN filtered_sample_profiles)} :
               final \in final_efsa_loci}

\* the rows of the profiles file: two samples over two loci
RecombRows ==
    {<<[name |-> <<"s", "1">>, alleles |-> a1], [name |-> <<"s", "2">>, alleles |-> a2]>> :
        a1 \in [{LocusA, LocusB} -> {<<"1">>, <<"2">>, <<"0">>}],
        a2 \in [{LocusA, LocusB} -> {<<"1">>, <<"2">>, <<"0">>}]}

\* --include-loci-list : NONE, or a file of loci
IncludeLists == {None, Some({LocusA}), Some({LocusA, LocusB})}

\* --hamming-threshold
HammingThresholds == {0, 1, 2}

\* --threshold, a whole percentage (default 3.0)
ThresholdPercent == 3

\* the enriched cache files the scan is given: one dense entry, the same
\* without lengths, the pair under both orders of its fingerprints, an entry
\* of the second locus without mutations, an entry of each locus (the first
\* with fewer SNPs and more mutations than the second), and a file that does
\* not decode
RecombCaches ==
    LET dense == CacheValue(1, 0, 0, Earlier, Some(1), Some(1))
        key12 == LocusA \o <<":", "1", ":", "2">>
        key21 == LocusA \o <<":", "2", ":", "1">>
        file(d) == ModernCache(d, Metadata(BaseConfig, "crc32", "snps", d))
    IN  {file([sk \in {key12} |-> dense]),
         file([sk \in {key12} |-> CacheValue(1, 0, 0, Earlier, None, None)]),
         file([sk \in {key12, key21} |-> dense]),
         file([sk \in {LocusB \o <<":", "1", ":", "2">>} |->
                  CacheValue(0, 0, 0, Earlier, Some(1), Some(1))]),
         file([sk \in {key12, LocusB \o <<":", "1", ":", "2">>} |->
                  IF sk = key12 THEN CacheValue(1, 2, 2, Earlier, Some(1), Some(1))
                  ELSE CacheValue(2, 0, 0, Earlier, Some(1), Some(1))]),
         Garbage}

RecombinationMain(rows, include_loci_list, hamming_threshold) ==
    /\ pc = "recombination"
    /\ ret' \in main(disk, rows, include_loci_list, <<"-">>, hamming_threshold,
                     ThresholdPercent)
    /\ op' = "recombination"
    /\ arg' = [profiles |-> rows, include_loci_list |-> include_loci_list,
               hamming_threshold |-> hamming_threshold]
    /\ pc' = "done"
    /\ UNCHANGED <<cache, has_new_entries, disk, config, hasher_type, schema,
                   sequence_db, samples, loci_names, args>>

InitRecomb ==
    /\ disk \in RecombCaches
    /\ hasher_type = "crc32"
    /\ samples = <<>>
    /\ loci_names = <<>>
    /\ schema = [l \in {LocusA} |-> {SeqA, SeqC}]
    /\ sequence_db = <<>>
    /\ cache = EmptyCache
    /\ has_new_entries = FALSE
    /\ config = BaseConfig
    /\ op = "new"
    /\ arg = NoArg
    /\ ret = "Ok"
    /\ pc = "recombination"
    /\ args = DefaultArgs

NextRecomb ==
    \E rows \in RecombRows, list \in IncludeLists, h \in HammingThresholds :
        RecombinationMain(rows, list, h)

SpecRecomb == InitRecomb /\ [][NextRecomb]_vars

\* the scan has ended with its results
Scanned == op = "recombination" /\ ret.ret = "Ok"

\* the alleles of the samples of the profiles file that was scanned
ScannedProfiles ==
    [name \in {arg.profiles[n].name : n \in 1..Len(arg.profiles)} |->
        arg.profiles[CHOOSE n \in 1..Len(arg.profiles) : arg.profiles[n].name = name].alleles]

\* C19: every pair retained by the Hamming pre-screen is stored as
\* (sample_low, sample_high) by string order of the sample ids, so the pair
\* check (the lookup of the ordered pair of the two owner samples) succeeds if
\* and only if the two samples are within the Hamming threshold over the
\* effective loci.
C19_RetainedPairsCanonical ==
    Scanned
      => /\ \A p \in ret.valid_pairs : str_le(p[1], p[2])
         /\ \A s1 \in DOMAIN ScannedProfiles, s2 \in DOMAIN ScannedProfiles :
               s1 # s2
                 => (normalized_pair(s1, s2) \in ret.valid_pairs
                       <=> hamming_dist(ScannedProfiles, s1, s2, ret.filtered_efsa_loci,
                                        <<"-">>) <= arg.hamming_threshold)

\* C20: every recombination event has sample_i <= sample_j by string order of
\* the sample ids.
C20_EventsOrdered ==
    Scanned => \A e \in ret.recombination_events : str_le(e[1], e[2])

\* the total_density of event a is at least that of event b
\* ((snps + indel_events) / avg_length * 100, compared without division)
total_density_ge(a, b) ==
    (a.snps + a.indel_events) * (b.len1 + b.len2)
       >= (b.snps + b.indel_events) * (a.len1 + a.len2)

\* C21: the events table is sorted by total_density, the density compared
\* with the threshold, in descending order: of two consecutive rows the
\* earlier has a total_density at least that of the later.
C21_TableSortedByTotalDensity ==
    Scanned
      => \A k \in 1..(Len(ret.events_table) - 1) :
            total_density_ge(ret.events_table[k], ret.events_table[k + 1])

\* the sample pair is stored in valid_pairs in the order by sample id
Retained(s1, s2) == s1 # s2 /\ normalized_pair(s1, s2) \in ret.valid_pairs

\* the cache entry under a key has both sequence lengths and a total_density
\* above the threshold
DenseEntry(sk) ==
    LET entry == disk.data[sk]
    IN  /\ entry.seq1_length # None /\ entry.seq2_length # None
        /\ entry.seq1_length[1] # 0 /\ entry.seq2_length[1] # 0
        /\ (entry.snps + entry.indel_events) * 200
             > ThresholdPercent * (entry.seq1_length[1] + entry.seq2_length[1])

\* the cache entry under a key is at a locus of the profiles and its two
\* alleles are carried there by the two samples of a retained pair
OwnedByRetainedPair(sk) ==
    LET parts == split(sk, ":")
    IN  /\ Len(parts) = 3
        /\ parts[2] # parts[3]
        /\ \E s1 \in DOMAIN ScannedProfiles, s2 \in DOMAIN ScannedProfiles :
              /\ Retained(s1, s2)
              /\ parts[1] \in DOMAIN ScannedProfiles[s1]
              /\ ScannedProfiles[s1][parts[1]] = parts[2]
              /\ ScannedProfiles[s2][parts[1]] = parts[3]

\* C22: with no loci list (NONE) the scan uses all loci of the profiles: a
\* cache entry at a profile locus whose two alleles belong to a retained
\* sample pair, with both sequence lengths and a total_density above the
\* threshold, is emitted as an event.
C22_NoneScansAllLoci ==
    (Scanned /\ arg.include_loci_list = None)
      => \A sk \in DOMAIN disk.data :
            (OwnedByRetainedPair(sk) /\ DenseEntry(sk))
              => \E e \in ret.recombination_events :
                    /\ e[3] = split(sk, ":")[1]
                    /\ {e[4], e[5]} = {split(sk, ":")[2], split(sk, ":")[3]}

-----------------------------------------------------------------------------
(* Ordered pairs of fingerprints (hashers/traits.rs) *)

\* the position of a variant in the declaration of enum AlleleHash
variant_index(h) ==
    CASE h.tag = "Crc32" -> 0
      [] h.tag = "String" -> 1
      [] h.tag = "Missing" -> 2

\* an order that compares fingerprints of the same variant only
hash_le_same_variant(a, b) ==
    /\ a.tag = b.tag
    /\ CASE a.tag = "Crc32" -> a.val <= b.val
         [] a.tag = "String" -> str_le(a.val, b.val)
         [] a.tag = "Missing" -> TRUE

\* AlleleHash <= AlleleHash by the derived Ord : the variants in the order of
\* their declaration, two fingerprints of one variant by their value
hash_le(a, b) ==
    IF variant_index(a) # variant_index(b) THEN variant_index(a) < variant_index(b)
    ELSE CASE a.tag = "Crc32" -> a.val <= b.val
           [] a.tag = "String" -> str_le(a.val, b.val)
           [] a.tag = "Missing" -> TRUE

\* AlleleHashPair::new
AlleleHashPair_new(hash1, hash2) ==
    IF hash_le(hash1, hash2) THEN [hash1 |-> hash1, hash2 |-> hash2]
    ELSE [hash1 |-> hash2, hash2 |-> hash1]

\* the fingerprints a pair is made of: numbers (0 and u32::MAX among them),
\* strings (the empty one and a prefix of another among them), and missing
PairHashes ==
    {Crc32(c) : c \in Crcs \cup {0, U32_MAX}}
       \cup {String(s) : s \in {<<>>, <<"-">>, <<"1">>, <<"1", "0">>, <<"2">>, <<"s">>}}
       \cup {Missing}

NewPair(hash1, hash2) ==
    /\ pc = "pair"
    /\ ret' = AlleleHashPair_new(hash1, hash2)
    /\ op' = "AlleleHashPair::new"
    /\ arg' = [hash1 |-> hash1, hash2 |-> hash2]
    /\ UNCHANGED <<cache, has_new_entries, disk, config, hasher_type, schema,
                   sequence_db, samples, loci_names, pc, args>>

InitPair ==
    /\ hasher_type = "crc32"
    /\ samples = <<>>
    /\ loci_names = <<>>
    /\ schema = [l \in {LocusA} |-> {SeqA, SeqC}]
    /\ sequence_db = <<>>
    /\ cache = EmptyCache
    /\ has_new_entries = FALSE
    /\ config = BaseConfig
    /\ disk = NoFile
    /\ op = "new"
    /\ arg = NoArg
    /\ ret = "Ok"
    /\ pc = "pair"
    /\ args = DefaultArgs

NextPair == \E hash1 \in PairHashes, hash2 \in PairHashes : NewPair(hash1, hash2)

SpecPair == InitPair /\ [][NextPair]_vars

\* C23: for all fingerprints a and b, AlleleHashPair::new(a, b) equals
\* AlleleHashPair::new(b, a), and the stored pair has hash1 <= hash2 in the
\* order of the fingerprints.
C23_PairCanonical ==
    op = "AlleleHashPair::new"
      => /\ ret = AlleleHashPair_new(arg.hash2, arg.hash1)
         /\ hash_le(ret.hash1, ret.hash2)
         /\ {ret.hash1, ret.hash2} = {arg.hash1, arg.hash2}

\* a pair given as (missing, number) or (string, number) has been stored with
\* the number first
C23_Witness ==
    /\ op = "AlleleHashPair::new"
    /\ arg.hash1.tag \in {"Missing", "String"}
    /\ arg.hash2.tag = "Crc32"
    /\ ret = [hash1 |-> arg.hash2, hash2 |-> arg.hash1]

-----------------------------------------------------------------------------
(* Specification of the precomputation over partial schemas: the engine's
   sequence database is loaded from a schema that may lack alleles *)

PartialSchemas == [{LocusA, LocusC} -> SUBSET {SeqA, SeqC}]

InitPrecompute ==
    /\ cache = EmptyCache
    /\ has_new_entries = FALSE
    /\ config = BaseConfig
    /\ hasher_type = "crc32"
    /\ loci_names = <<LocusA, LocusC>>
    /\ samples = FixedMatrix(loci_names)
    /\ schema \in PartialSchemas
    /\ sequence_db \in from_schema_selective(schema,
                           extract_unique_crc_pairs(samples, loci_names))
    /\ disk = NoFile
    /\ op = "new"
    /\ arg = NoArg
    /\ ret = "Ok"
    /\ pc = "api"
    /\ args = DefaultArgs

NextPrecompute ==
    \/ \E c \in CrcArgs, e \in EntryArgs : CacheDistance(LocusA, c[1], c[2], e)
    \/ \E p \in PairArgs(samples, loci_names), m \in {"SnpsOnly", "Hamming"} :
          PrecomputeAlignments(p, m)

SpecPrecompute == InitPrecompute /\ [][NextPrecompute]_vars

-----------------------------------------------------------------------------
(* Properties of precompute_alignments, checked under SpecPrecompute *)

CanonicalKey(p) == Key(p[1], Min(p[2], p[3]), IF p[2] <= p[3] THEN p[3] ELSE p[2])

InDatabase(k) ==
    get_sequence(sequence_db, k[1], k[2]) # None
        /\ get_sequence(sequence_db, k[1], k[3]) # None

-----------------------------------------------------------------------------
(* Properties of the extracted pair set, checked under SpecDist *)

\* the two samples hold different fingerprints at the locus, none missing
Compared(i, j, locus) ==
    /\ locus \in DOMAIN samples[i] /\ locus \in DOMAIN samples[j]
    /\ ~is_missing(samples[i][locus]) /\ ~is_missing(samples[j][locus])
    /\ samples[i][locus] # samples[j][locus]

\* the cache holds the canonical key of the two fingerprints
Covered(i, j, locus) ==
    /\ as_crc32(samples[i][locus]) # None
    /\ as_crc32(samples[j][locus]) # None
    /\ CanonicalKey(<<locus, as_crc32(samples[i][locus])[1],
                      as_crc32(samples[j][locus])[1]>>) \in DOMAIN cache

\* C25: after extract_unique_crc_pairs and precompute_alignments, with every
\* needed sequence in the schema, the cache holds the key (locus, min, max)
\* for every two samples and every locus where both are non-missing with
\* different fingerprints, so that no lookup of calculate_distance_matrix
\* is a cache miss.
C25_PairsCovered ==
    op = "precompute_alignments" =>
        \A i \in 1..Len(samples), j \in 1..Len(samples), n \in 1..Len(loci_names) :
            Compared(i, j, loci_names[n]) => Covered(i, j, loci_names[n])

-----------------------------------------------------------------------------
(* Specification of benchmark mode: the main thread of run_benchmark and
   its memory-monitor thread, one atomic access per step.  pc holds the
   position of each thread, arg the shared cell peak_memory and the locals
   current_mem, peak (monitor) and final_peak_memory (main). *)

MaxMemory == 3

\* get_memory_usage : the resident size, or 0 where it cannot be read
MemoryUsages == 0..MaxMemory

BenchFixed ==
    UNCHANGED <<cache, has_new_entries, config, hasher_type, sequence_db, schema,
                disk, samples, loci_names, op, ret, args>>

\* while peak_memory_clone.load(Relaxed) != 0
MonitorWhile ==
    /\ pc.monitor = "while"
    /\ pc' = [pc EXCEPT !.monitor = IF arg.peak_memory # 0 THEN "get_memory_usage"
                                    ELSE "exit"]
    /\ UNCHANGED arg
    /\ BenchFixed

\* let current_mem = get_memory_usage()
MonitorGetMemoryUsage(m) ==
    /\ pc.monitor = "get_memory_usage"
    /\ arg' = [arg EXCEPT !.current_mem = m]
    /\ pc' = [pc EXCEPT !.monitor = "load"]
    /\ BenchFixed

\* let mut peak = peak_memory_clone.load(Relaxed), and the load in the body
\* of the inner loop
MonitorLoad ==
    /\ pc.monitor = "load"
    /\ arg' = [arg EXCEPT !.peak = arg.peak_memory]
    /\ pc' = [pc EXCEPT !.monitor = "compare_exchange_weak"]
    /\ BenchFixed

\* while current_mem > peak && compare_exchange_weak(peak, current_mem).is_err():
\* the exchange compares the cell with peak and stores current_mem if equal
MonitorCompareExchange ==
    /\ pc.monitor = "compare_exchange_weak"
    /\ IF arg.current_mem > arg.peak
       THEN IF arg.peak_memory = arg.peak
            THEN /\ arg' = [arg EXCEPT !.peak_memory = arg.current_mem]
                 /\ pc' = [pc EXCEPT !.monitor = "sleep"]
            ELSE /\ pc' = [pc EXCEPT !.monitor = "load"]
                 /\ UNCHANGED arg
       ELSE /\ pc' = [pc EXCEPT !.monitor = "sleep"]
            /\ UNCHANGED arg
    /\ BenchFixed

\* compare_exchange_weak may fail although the cell holds the expected value
MonitorSpuriousFailure ==
    /\ pc.monitor = "compare_exchange_weak"
    /\ arg.current_mem > arg.peak
    /\ pc' = [pc EXCEPT !.monitor = "load"]
    /\ UNCHANGED arg
    /\ BenchFixed

\* std::thread::sleep(100 ms)
MonitorSleep ==
    /\ pc.monitor = "sleep"
    /\ pc' = [pc EXCEPT !.monitor = "while"]
    /\ UNCHANGED arg
    /\ BenchFixed

\* the chunk loop of the main thread ends (timeout or no pairs left)
MainChunksDone ==
    /\ pc.main = "chunks"
    /\ pc' = [pc EXCEPT !.main = "load"]
    /\ UNCHANGED arg
    /\ BenchFixed

\* let final_peak_memory = peak_memory.load(Relaxed)
MainLoadPeak ==
    /\ pc.main = "load"
    /\ arg' = [arg EXCEPT !.final_peak_memory = arg.peak_memory]
    /\ pc' = [pc EXCEPT !.main = "store"]
    /\ BenchFixed

\* peak_memory.store(0, Relaxed)
MainStore ==
    /\ pc.main = "store"
    /\ arg' = [arg EXCEPT !.peak_memory = 0]
    /\ pc' = [pc EXCEPT !.main = "join"]
    /\ BenchFixed

\* monitor_handle.join() returns once the monitor thread has ended
MainJoin ==
    /\ pc.main = "join"
    /\ pc.monitor = "exit"
    /\ pc' = [pc EXCEPT !.main = "joined"]
    /\ UNCHANGED arg
    /\ BenchFixed

Monitor ==
    \/ MonitorWhile
    \/ \E m \in MemoryUsages : MonitorGetMemoryUsage(m)
    \/ MonitorLoad
    \/ MonitorCompareExchange
    \/ MonitorSpuriousFailure
    \/ MonitorSleep

MainThread ==
    \/ MainChunksDone
    \/ MainLoadPeak
    \/ MainStore
    \/ MainJoin

InitBenchmark ==
    /\ hasher_type = "crc32"
    /\ samples = <<>>
    /\ loci_names = <<>>
    /\ schema = [l \in {LocusA} |-> {SeqA, SeqC}]
    /\ sequence_db = <<>>
    /\ cache = EmptyCache
    /\ has_new_entries = FALSE
    /\ config = BaseConfig
    /\ disk = NoFile
    /\ op = "run_benchmark"
    /\ \E initial_memory \in MemoryUsages :
          arg = [peak_memory |-> initial_memory, current_mem |-> 0, peak |-> 0,
                 final_peak_memory |-> 0]
    /\ ret = "Ok"
    /\ pc = [main |-> "chunks", monitor |-> "while"]
    /\ args = DefaultArgs

NextBenchmark ==
    \/ MonitorWhile
    \/ \E m \in MemoryUsages : MonitorGetMemoryUsage(m)
    \/ MonitorLoad
    \/ MonitorCompareExchange
    \/ MonitorSpuriousFailure
    \/ MonitorSleep
    \/ MainChunksDone
    \/ MainLoadPeak
    \/ MainStore
    \/ MainJoin

SpecBenchmark == InitBenchmark /\ [][NextBenchmark]_vars

\* both threads keep running, and an exchange that can succeed does not fail
\* spuriously for ever
SpecBenchmarkFair ==
    /\ SpecBenchmark
    /\ WF_vars(Monitor)
    /\ WF_vars(MainThread)
    /\ SF_vars(MonitorCompareExchange)

\* C26: benchmark mode always exits: once the main thread has stored the stop
\* value 0 into peak_memory, the monitor thread eventually observes 0 and
\* leaves its loop, so that the join returns, under every interleaving.
C26_BenchmarkExits == (pc.main = "join") ~> (pc.main = "joined")

-----------------------------------------------------------------------------
(* Properties of a failed load, checked under Spec *)

\* C27: if load_cache returns an error (unreadable file, undecodable
\* content, alignment-config mismatch or hasher mismatch), the engine's cache
\* entries and its has_new_entries flag are what they were before the call.
C27_FailedLoadKeepsEngine ==
    [][(op' = "load_cache" /\ ret' = "Err") =>
           (cache' = cache /\ has_new_entries' = has_new_entries)]_vars

\* a load refused for its hasher type on an engine that holds unsaved entries
C27_Witness ==
    /\ op = "load_cache"
    /\ ret = "Err"
    /\ arg.file.format = "modern"
    /\ config_eq(arg.file.metadata.alignment_config, config)
    /\ arg.file.metadata.hasher_type # hasher_type
    /\ cache # EmptyCache
    /\ has_new_entries

-----------------------------------------------------------------------------
(* Properties of the last save of a run, checked under SpecMain *)

\* every entry of the file whose two alleles are in the schema has its lengths
LengthsKept(file) ==
    file.format = "modern"
        /\ \A sk \in DOMAIN file.data :
              Found(sk, 1) /\ Found(sk, 2) =>
                  file.data[sk].seq1_length # None /\ file.data[sk].seq2_length # None

\* C28: in a run given a cache file, a schema and the enrich-lengths option,
\* where the loaded cache lacks pairs that are then computed, the cache file
\* left on disk at the end of the run carries seq1_length and seq2_length
\* for every entry whose two alleles are in the schema: the last save does
\* not undo the enrichment that the file on disk shows before it.
C28_FinalFileKeepsLengths ==
    [][(/\ pc = "save" /\ LengthsKept(disk)
        /\ args.enrich_lengths /\ ~args.force_recompute
        /\ has_new_entries
        /\ op' = "save_cache" /\ ret' = "Ok" /\ pc' = "done")
           => LengthsKept(disk')]_vars

\* C29: the recombination scan is deterministic in its inputs: for fixed
\* profile and cache file contents, the set of emitted events and the
\* pairwise summary are the same for every iteration order of the cache map
\* and of the sample-profile map.
C29_ScanDeterministic ==
    Scanned =>
        \A r \in main(disk, arg.profiles, arg.include_loci_list, <<"-">>,
                      arg.hamming_threshold, ThresholdPercent) :
            /\ r.recombination_events = ret.recombination_events
            /\ r.pairwise_recombination = ret.pairwise_recombination

-----------------------------------------------------------------------------
(* Properties that relate the distance modes, checked under SpecDist *)

\* Option<usize> a is defined and at most b
OptionLe(a, b) == a # None /\ b # None /\ a[1] <= b[1]

====
